---- MODULE Spec2Model ----
(***************************************************************************)
(* Model of scripts/benchmark_runner.py: the ingestion of one benchmark    *)
(* log (parse_benchmark_output, _parse_legacy, BenchmarkParser).           *)
(*                                                                         *)
(* Numbers are fixed-point integers in thousandths (1.0 ms = 1000,         *)
(* 14.99 % = 14990); every numeric token of the input alphabet has at most *)
(* three fractional digits, so float() of a token is exact in this scale.  *)
(*                                                                         *)
(* The text `output` is represented by what the code's searches find in    *)
(* it: the whole-text facts (marker, the three Legacy matches, the pass    *)
(* marker) are fixed in Init; the lines are supplied one at a time as the  *)
(* loop of BenchmarkParser.parse reads them, and the findall matches of    *)
(* the DETAILS and category patterns are recorded as the lines go by.      *)
(***************************************************************************)
EXTENDS Integers, Sequences, FiniteSets, TLC

\* ------------------------------------------------------------------ bounds
MaxLines == 6          \* lines of one log
MaxDetails == 1        \* DETAILS lines of one log
MaxCatLines == 2       \* category lines of one log

\* --------------------------------------------------------------- constants
LEGACY_PASS_MS == 5000          \* avg_ms < 5.0
COMPARATIVE_PASS_PCT == 15000   \* qr_ohp < 15.0

None == [kind |-> "None"]       \* Python None where a dict / dataclass may stand
NoMatch == <<>>                 \* a regex that did not match; None where a tuple may stand
NoSection == "None"             \* current_section = None
NoHeader == ""                  \* the section-header pattern did not match

\* ------------------------------------------------------ float() and int()
IsDigit(c) == c \in {"0", "1", "2", "3", "4", "5", "6", "7", "8", "9"}

DigitVal(c) ==
  CASE c = "0" -> 0 [] c = "1" -> 1 [] c = "2" -> 2 [] c = "3" -> 3 [] c = "4" -> 4
    [] c = "5" -> 5 [] c = "6" -> 6 [] c = "7" -> 7 [] c = "8" -> 8 [] c = "9" -> 9

RECURSIVE DigitsVal(_)
DigitsVal(s) ==
  IF Len(s) = 0 THEN 0
  ELSE 10 * DigitsVal(SubSeq(s, 1, Len(s) - 1)) + DigitVal(s[Len(s)])

\* int(group) of a group matched by (\d+)
int(tok) == DigitsVal(tok)

\* ------------------------------------------------------- input alphabet
\* Section labels, the group of ^---\s+(.+)\s+---, and the substrings of
\* interest each of them contains.
Labels ==
  {"QR Code Standard", "QR Code Stress", "Barcode",
   "QR Code Standard + Barcode", "Warmup", "Barcode Metrics"}

Substrings(s) ==
  CASE s = "QR Code Standard" -> {"QR Code Standard"}
    [] s = "QR Code Stress" -> {"QR Code Stress"}
    [] s = "Barcode" -> {"Barcode"}
    [] s = "QR Code Standard + Barcode" -> {"QR Code Standard", "Barcode"}
    [] s = "Barcode Metrics" -> {"Barcode", "Metrics"}
    [] OTHER -> {}

\* Python `sub in s`
Contains(sub, s) == sub \in Substrings(s)

\* numeric tokens, as the character tuples the patterns capture
Tok_1_0 == <<"1", ".", "0">>
Tok_2_0 == <<"2", ".", "0">>
Tok_9_0 == <<"9", ".", "0">>
Tok_1_2_3 == <<"1", ".", "2", ".", "3">>            \* matches [\d.]+, is no number
Tok_abc == <<"a", "b", "c">>                        \* matches .+, is no number
Tok_p0_5 == <<"+", "0", ".", "5">>
Tok_p0_6 == <<"+", "0", ".", "6">>
Tok_14_99 == <<"1", "4", ".", "9", "9">>
Tok_15_0 == <<"1", "5", ".", "0">>
Tok_4_99 == <<"4", ".", "9", "9">>
Tok_5_0 == <<"5", ".", "0">>
Tok_100 == <<"1", "0", "0">>
Tok_50000 == <<"5", "0", "0", "0", "0">>

\* float(group) of a token: [ok, v]; ok = FALSE is ValueError.  A token is a
\* number when it is an optional sign followed by digits with at most one '.'
\* and at least one digit; v is its value in thousandths (the tokens of the
\* alphabet have at most three fractional digits).
Unsigned(tok) == IF tok[1] \in {"+", "-"} THEN Tail(tok) ELSE tok

IsNumber(body) ==
  /\ \A i \in 1..Len(body) : IsDigit(body[i]) \/ body[i] = "."
  /\ Cardinality({i \in 1..Len(body) : body[i] = "."}) <= 1
  /\ \E i \in 1..Len(body) : IsDigit(body[i])

\* the number of characters after the '.'
FracDigits(body) ==
  Cardinality({i \in 1..Len(body) : \E j \in 1..(i - 1) : body[j] = "."})

Magnitude(body) == DigitsVal(SelectSeq(body, IsDigit)) * 10 ^ (3 - FracDigits(body))

float(tok) ==
  IF ~IsNumber(Unsigned(tok)) THEN [ok |-> FALSE, v |-> 0]
  ELSE [ok |-> TRUE,
        v |-> IF tok[1] = "-" THEN 0 - Magnitude(Unsigned(tok))
              ELSE Magnitude(Unsigned(tok))]

\* A line, by what _process_line and the whole-text patterns find in it:
\*   blank   line.strip() is empty
\*   header  group 1 of the section-header pattern, or NoHeader
\*   yomu    "Yomu." in line
\*   stats   groups of Avg:\s+([\d.]+)ms.*p95:\s+([\d.]+)ms, or NoMatch
\*   oh      groups of Overhead:\s+([+\-]?[\d.]+)ms\s+\(([+\-]?[\d.]+)%\), or NoMatch
\*   det     stripped groups of DETAILS:(.+)\|(.+)\|(.+)\|(.+), or NoMatch
\*   cat     <<name, groups of name\s+: Avg ([\d.]+)ms, p95 ([\d.]+)ms>>, or NoMatch
Line(header, yomu, stats, oh, det, cat) ==
  [blank |-> FALSE, header |-> header, yomu |-> yomu, stats |-> stats,
   oh |-> oh, det |-> det, cat |-> cat]

BlankLine ==
  [blank |-> TRUE, header |-> NoHeader, yomu |-> FALSE, stats |-> NoMatch,
   oh |-> NoMatch, det |-> NoMatch, cat |-> NoMatch]

HeaderLines == {Line(h, FALSE, NoMatch, NoMatch, NoMatch, NoMatch) : h \in Labels}

AvgTokens == {Tok_1_0, Tok_2_0, Tok_1_2_3}

ReadingLines ==
  {Line(NoHeader, TRUE, <<a, Tok_9_0>>, NoMatch, NoMatch, NoMatch) : a \in AvgTokens}

OverheadTokens ==
  {<<Tok_p0_5, Tok_14_99>>, <<Tok_p0_6, Tok_15_0>>, <<Tok_p0_5, Tok_1_2_3>>}

OverheadLines ==
  {Line(NoHeader, FALSE, NoMatch, o, NoMatch, NoMatch) : o \in OverheadTokens}

OtherLines ==
  { BlankLine,
    \* "Legend  Avg: 1.0ms  p95: 9.0ms": the stats pattern without "Yomu."
    Line(NoHeader, FALSE, <<Tok_1_0, Tok_9_0>>, NoMatch, NoMatch, NoMatch),
    \* a reading and an overhead on one line
    Line(NoHeader, TRUE, <<Tok_2_0, Tok_9_0>>, <<Tok_p0_5, Tok_14_99>>, NoMatch, NoMatch),
    Line(NoHeader, TRUE, <<Tok_1_0, Tok_9_0>>, <<Tok_p0_6, Tok_15_0>>, NoMatch, NoMatch),
    \* a header line that also carries an overhead
    Line("Warmup", FALSE, NoMatch, <<Tok_p0_6, Tok_15_0>>, NoMatch, NoMatch) }

DetailLines ==
  { Line(NoHeader, FALSE, NoMatch, NoMatch,
         <<"img1.png", Tok_1_0, Tok_2_0, "+1.000">>, NoMatch),
    Line(NoHeader, FALSE, NoMatch, NoMatch,
         <<"img2.png", Tok_abc, Tok_2_0, "-0.020">>, NoMatch) }

CatOrder == <<"Standard", "Complex", "HiRes", "Distorted", "Noise", "Edge">>

CatNames == {CatOrder[i] : i \in 1..Len(CatOrder)}

CategoryLines ==
  { Line(NoHeader, FALSE, NoMatch, NoMatch, NoMatch, <<"Standard", Tok_1_0, Tok_9_0>>),
    Line(NoHeader, FALSE, NoMatch, NoMatch, NoMatch, <<"Edge", Tok_1_2_3, Tok_9_0>>) }

Lines ==
  HeaderLines \cup ReadingLines \cup OverheadLines \cup OtherLines \cup DetailLines

\* The whole-text facts of a log:
\*   marker         "COMPARATIVE BENCHMARK" in output
\*   total_match    groups of Total processed: (\d+) images \((\d+) success\)
\*   time_match     group of Total decode time: (\d+)us
\*   avg_match      group of Average decode time: ([\d.]+)ms
\*   pass_explicit  "BENCHMARK_PASS" in output
LegacyFacts ==
  [total_match : {NoMatch, <<Tok_100, Tok_100>>},
   time_match : {NoMatch, <<Tok_50000>>},
   avg_match : {NoMatch, <<Tok_4_99>>, <<Tok_5_0>>, <<Tok_1_2_3>>},
   pass_explicit : BOOLEAN]

Text(marker, f) ==
  [marker |-> marker, total_match |-> f.total_match, time_match |-> f.time_match,
   avg_match |-> f.avg_match, pass_explicit |-> f.pass_explicit,
   nlines |-> 0, details |-> <<>>, cats |-> [c \in CatNames |-> <<>>]]

NoLegacyFacts ==
  [total_match |-> NoMatch, time_match |-> NoMatch, avg_match |-> NoMatch,
   pass_explicit |-> FALSE]

\* logs without the marker: every combination of the Legacy facts; logs with
\* the marker: no Legacy line
Outputs == {Text(FALSE, f) : f \in LegacyFacts} \cup {Text(TRUE, NoLegacyFacts)}

\* every combination of the marker and the Legacy facts
MixedOutputs == {Text(m, f) : m \in BOOLEAN, f \in LegacyFacts}

\* a short alphabet for logs that mix the marker with Legacy lines
MixedLines ==
  { Line("QR Code Standard", FALSE, NoMatch, NoMatch, NoMatch, NoMatch),
    Line("Barcode", FALSE, NoMatch, NoMatch, NoMatch, NoMatch),
    Line(NoHeader, TRUE, <<Tok_1_0, Tok_9_0>>, NoMatch, NoMatch, NoMatch),
    Line(NoHeader, TRUE, <<Tok_2_0, Tok_9_0>>, <<Tok_p0_5, Tok_14_99>>, NoMatch, NoMatch),
    Line(NoHeader, FALSE, NoMatch, <<Tok_p0_5, Tok_1_2_3>>, NoMatch, NoMatch) }

\* ---------------------------------------------------------- _parse_legacy
\* the call raised ValueError instead of returning; `at` is the frame that raised
ValueError(at) == [kind |-> "ValueError", at |-> at]

\* mutant of legacy_passed: the threshold itself passes
legacy_passed_le(passed_explicit, avg_ms) == passed_explicit \/ avg_ms <= LEGACY_PASS_MS

\* passed = passed_explicit or avg_ms < 5.0
legacy_passed(passed_explicit, avg_ms) == passed_explicit \/ avg_ms < LEGACY_PASS_MS

_parse_legacy(output) ==
  IF \/ output.total_match = NoMatch
     \/ output.time_match = NoMatch
     \/ output.avg_match = NoMatch
  THEN None
  ELSE LET total == int(output.total_match[1])
           success == int(output.total_match[2])
           total_us == int(output.time_match[1])
           avg_ms == float(output.avg_match[1])
       IN IF ~avg_ms.ok THEN ValueError("_parse_legacy")
          ELSE [kind |-> "Legacy", mode |-> "", total_images |-> total,
                success_count |-> success, total_time_us |-> total_us,
                avg_time_ms |-> avg_ms.v,
                passed |-> legacy_passed(output.pass_explicit, avg_ms.v)]

\* -------------------------------------------------------- BenchmarkParser
EmptyDict == [c \in {} |-> NoMatch]

\* BenchmarkParser.__init__
BenchmarkParser ==
  [qr_standard_stats |-> None, qr_stress_stats |-> None, barcode_stats |-> None,
   current_section |-> NoSection, section_avgs |-> <<>>, section_overhead |-> NoMatch,
   qr_cats |-> EmptyDict, bc_cats |-> EmptyDict, details |-> <<>>]

\* mutant of CommitSection: three readings are asked for instead of two
CommitSection_three(self) ==
  IF self.current_section = NoSection \/ self.section_avgs = <<>>
  THEN [self |-> self, stored |-> "none"]
  ELSE LET stats == [baseline |-> self.section_avgs[1],
                     all |-> self.section_avgs[2],
                     overhead |-> self.section_overhead]
           slot == IF Len(self.section_avgs) >= 3 /\ self.section_overhead # NoMatch
                   THEN IF Contains("QR Code Standard", self.current_section)
                        THEN "qr_standard_stats"
                        ELSE IF Contains("QR Code Stress", self.current_section)
                        THEN "qr_stress_stats"
                        ELSE IF Contains("Barcode", self.current_section)
                        THEN "barcode_stats"
                        ELSE "none"
                   ELSE "none"
           kept == IF slot = "none" THEN self ELSE [self EXCEPT ![slot] = stats]
       IN [self |-> [kept EXCEPT !.section_avgs = <<>>, !.section_overhead = NoMatch],
           stored |-> slot]

\* mutant of CommitSection: a slot that is filled is not written again
CommitSection_keep_first(self) ==
  IF self.current_section = NoSection \/ self.section_avgs = <<>>
  THEN [self |-> self, stored |-> "none"]
  ELSE LET stats == [baseline |-> self.section_avgs[1],
                     all |-> self.section_avgs[2],
                     overhead |-> self.section_overhead]
           slot == IF Len(self.section_avgs) >= 2 /\ self.section_overhead # NoMatch
                   THEN IF Contains("QR Code Standard", self.current_section)
                        THEN "qr_standard_stats"
                        ELSE IF Contains("QR Code Stress", self.current_section)
                        THEN "qr_stress_stats"
                        ELSE IF Contains("Barcode", self.current_section)
                        THEN "barcode_stats"
                        ELSE "none"
                   ELSE "none"
           kept == IF slot = "none" THEN self
                   ELSE IF self[slot] # None THEN self
                   ELSE [self EXCEPT ![slot] = stats]
       IN [self |-> [kept EXCEPT !.section_avgs = <<>>, !.section_overhead = NoMatch],
           stored |-> slot]

\* _commit_section, with the slot its assignment went to ("none" when no
\* assignment ran)
CommitSection(self) ==
  IF self.current_section = NoSection \/ self.section_avgs = <<>>
  THEN [self |-> self, stored |-> "none"]
  ELSE LET stats == [baseline |-> self.section_avgs[1],
                     all |-> self.section_avgs[2],
                     overhead |-> self.section_overhead]
           slot == IF Len(self.section_avgs) >= 2 /\ self.section_overhead # NoMatch
                   THEN IF Contains("QR Code Standard", self.current_section)
                        THEN "qr_standard_stats"
                        ELSE IF Contains("QR Code Stress", self.current_section)
                        THEN "qr_stress_stats"
                        ELSE IF Contains("Barcode", self.current_section)
                        THEN "barcode_stats"
                        ELSE "none"
                   ELSE "none"
           kept == IF slot = "none" THEN self ELSE [self EXCEPT ![slot] = stats]
       IN [self |-> [kept EXCEPT !.section_avgs = <<>>, !.section_overhead = NoMatch],
           stored |-> slot]

\* mutant of _commit_section: the Barcode label is looked for first
_commit_section_barcode_first(self) ==
  IF self.current_section = NoSection \/ self.section_avgs = <<>> THEN self
  ELSE IF Len(self.section_avgs) >= 2 /\ self.section_overhead # NoMatch
          /\ Contains("Barcode", self.current_section)
  THEN [self EXCEPT !.barcode_stats = [baseline |-> self.section_avgs[1],
                                       all |-> self.section_avgs[2],
                                       overhead |-> self.section_overhead],
                    !.section_avgs = <<>>, !.section_overhead = NoMatch]
  ELSE CommitSection(self).self

_commit_section(self) == CommitSection(self).self

\* mutant of _process_line: an overhead line does not overwrite a pending
\* overhead
_process_line_keep_first(self, line) ==
  IF line.blank THEN [self |-> self, raised |-> FALSE]
  ELSE IF line.header # NoHeader
  THEN IF Contains("Metrics", line.header)
       THEN [self |-> self, raised |-> FALSE]
       ELSE [self |-> [_commit_section(self) EXCEPT !.current_section = line.header],
             raised |-> FALSE]
  ELSE LET is_stats == line.yomu /\ line.stats # NoMatch
           avg == float(line.stats[1])
           p95 == float(line.stats[2])
           stats_raise == is_stats /\ (~avg.ok \/ ~p95.ok)
           s1 == IF is_stats /\ ~stats_raise
                 THEN [self EXCEPT !.section_avgs = Append(@, <<avg.v, p95.v>>)]
                 ELSE self
           is_oh == line.oh # NoMatch
           ms == float(line.oh[1])
           pct == float(line.oh[2])
           oh_raise == is_oh /\ (~ms.ok \/ ~pct.ok)
           s2 == IF is_oh /\ ~oh_raise /\ s1.section_overhead = NoMatch
                 THEN [s1 EXCEPT !.section_overhead = <<ms.v, pct.v>>]
                 ELSE s1
       IN IF stats_raise THEN [self |-> self, raised |-> TRUE]
          ELSE IF oh_raise THEN [self |-> s1, raised |-> TRUE]
          ELSE [self |-> s2, raised |-> FALSE]

\* mutant of _process_line: a header containing Metrics opens a section like
\* any other header
_process_line_no_metrics(self, line) ==
  IF line.blank THEN [self |-> self, raised |-> FALSE]
  ELSE IF line.header # NoHeader
  THEN [self |-> [_commit_section(self) EXCEPT !.current_section = line.header],
        raised |-> FALSE]
  ELSE LET is_stats == line.yomu /\ line.stats # NoMatch
           avg == float(line.stats[1])
           p95 == float(line.stats[2])
           stats_raise == is_stats /\ (~avg.ok \/ ~p95.ok)
           s1 == IF is_stats /\ ~stats_raise
                 THEN [self EXCEPT !.section_avgs = Append(@, <<avg.v, p95.v>>)]
                 ELSE self
           is_oh == line.oh # NoMatch
           ms == float(line.oh[1])
           pct == float(line.oh[2])
           oh_raise == is_oh /\ (~ms.ok \/ ~pct.ok)
           s2 == IF is_oh /\ ~oh_raise
                 THEN [s1 EXCEPT !.section_overhead = <<ms.v, pct.v>>]
                 ELSE s1
       IN IF stats_raise THEN [self |-> self, raised |-> TRUE]
          ELSE IF oh_raise THEN [self |-> s1, raised |-> TRUE]
          ELSE [self |-> s2, raised |-> FALSE]

\* _process_line: the parser after the line, and whether float() raised
_process_line(self, line) ==
  IF line.blank THEN [self |-> self, raised |-> FALSE]
  ELSE IF line.header # NoHeader
  THEN IF Contains("Metrics", line.header)
       THEN [self |-> self, raised |-> FALSE]
       ELSE [self |-> [_commit_section(self) EXCEPT !.current_section = line.header],
             raised |-> FALSE]
  ELSE LET is_stats == line.yomu /\ line.stats # NoMatch
           avg == float(line.stats[1])
           p95 == float(line.stats[2])
           stats_raise == is_stats /\ (~avg.ok \/ ~p95.ok)
           s1 == IF is_stats /\ ~stats_raise
                 THEN [self EXCEPT !.section_avgs = Append(@, <<avg.v, p95.v>>)]
                 ELSE self
           is_oh == line.oh # NoMatch
           ms == float(line.oh[1])
           pct == float(line.oh[2])
           oh_raise == is_oh /\ (~ms.ok \/ ~pct.ok)
           s2 == IF is_oh /\ ~oh_raise
                 THEN [s1 EXCEPT !.section_overhead = <<ms.v, pct.v>>]
                 ELSE s1
       IN IF stats_raise THEN [self |-> self, raised |-> TRUE]
          ELSE IF oh_raise THEN [self |-> s1, raised |-> TRUE]
          ELSE [self |-> s2, raised |-> FALSE]

\* dict[key] = value
DictSet(d, key, value) ==
  [k \in DOMAIN d \cup {key} |-> IF k = key THEN value ELSE d[k]]

\* (float(m[i][0]), float(m[i][1]), float(m[j][0]), float(m[j][1])) of the
\* 1-based matches i and j, each as float's [ok, v]
CatTuple(matches, i, j) ==
  [n \in 1..4 |-> float(matches[IF n <= 2 THEN i ELSE j][IF n \in {1, 3} THEN 1 ELSE 2])]

CatTupleOk(t) == \A n \in 1..4 : t[n].ok

CatTupleVal(t) == [n \in 1..4 |-> t[n].v]

\* mutant of ParseCategory: the barcode tuple is built from the last two
\* matches
ParseCategory_last(self, matches, cat) ==
  IF Len(matches) < 2 THEN [self |-> self, raised |-> FALSE]
  ELSE IF ~CatTupleOk(CatTuple(matches, 1, 2)) THEN [self |-> self, raised |-> TRUE]
  ELSE IF Len(matches) < 4
  THEN [self |-> [self EXCEPT !.qr_cats = DictSet(@, cat, CatTupleVal(CatTuple(matches, 1, 2)))],
        raised |-> FALSE]
  ELSE IF ~CatTupleOk(CatTuple(matches, Len(matches) - 1, Len(matches)))
  THEN [self |-> [self EXCEPT !.qr_cats = DictSet(@, cat, CatTupleVal(CatTuple(matches, 1, 2)))],
        raised |-> TRUE]
  ELSE [self |-> [self EXCEPT !.qr_cats = DictSet(@, cat, CatTupleVal(CatTuple(matches, 1, 2))),
                              !.bc_cats = DictSet(@, cat, CatTupleVal(CatTuple(matches, Len(matches) - 1, Len(matches))))],
        raised |-> FALSE]

\* the body of the loop of _parse_categories for one category name
ParseCategory(self, matches, cat) ==
  IF Len(matches) < 2 THEN [self |-> self, raised |-> FALSE]
  ELSE IF ~CatTupleOk(CatTuple(matches, 1, 2)) THEN [self |-> self, raised |-> TRUE]
  ELSE IF Len(matches) < 4
  THEN [self |-> [self EXCEPT !.qr_cats = DictSet(@, cat, CatTupleVal(CatTuple(matches, 1, 2)))],
        raised |-> FALSE]
  ELSE IF ~CatTupleOk(CatTuple(matches, 3, 4))
  THEN [self |-> [self EXCEPT !.qr_cats = DictSet(@, cat, CatTupleVal(CatTuple(matches, 1, 2)))],
        raised |-> TRUE]
  ELSE [self |-> [self EXCEPT !.qr_cats = DictSet(@, cat, CatTupleVal(CatTuple(matches, 1, 2))),
                              !.bc_cats = DictSet(@, cat, CatTupleVal(CatTuple(matches, 3, 4)))],
        raised |-> FALSE]

\* _parse_categories from the k-th name of the fixed list on
RECURSIVE ParseCategoriesFrom(_, _, _)
ParseCategoriesFrom(self, output, k) ==
  IF k > Len(CatOrder) THEN [self |-> self, raised |-> FALSE]
  ELSE LET r == ParseCategory(self, output.cats[CatOrder[k]], CatOrder[k])
       IN IF r.raised THEN r ELSE ParseCategoriesFrom(r.self, output, k + 1)

_parse_categories(self, output) == ParseCategoriesFrom(self, output, 1)

\* the rows _parse_details appends for the k-th match on, and whether float()
\* raised on the way
RECURSIVE DetailRowsFrom(_, _, _)
DetailRowsFrom(details, k, rows) ==
  IF k > Len(details) THEN [rows |-> rows, raised |-> FALSE]
  ELSE IF ~float(details[k][2]).ok \/ ~float(details[k][3]).ok
  THEN [rows |-> rows, raised |-> TRUE]
  ELSE DetailRowsFrom(details, k + 1,
         Append(rows, <<details[k][1], float(details[k][2]).v,
                        float(details[k][3]).v, details[k][4]>>))

\* mutant of _parse_details: each row is inserted in front of the earlier ones
_parse_details_reversed(self, output) ==
  [self |-> [self EXCEPT !.details =
               [i \in 1..Len(DetailRowsFrom(output.details, 1, <<>>).rows) |->
                  DetailRowsFrom(output.details, 1, <<>>).rows[
                    Len(DetailRowsFrom(output.details, 1, <<>>).rows) + 1 - i]] \o @],
   raised |-> DetailRowsFrom(output.details, 1, <<>>).raised]

_parse_details(self, output) ==
  [self |-> [self EXCEPT !.details = @ \o DetailRowsFrom(output.details, 1, <<>>).rows],
   raised |-> DetailRowsFrom(output.details, 1, <<>>).raised]

\* mutant of get_stat: a slot that was never committed counts as 100
get_stat_missing_100(stats_dict, key, idx) ==
  IF stats_dict = None THEN 100000 ELSE stats_dict[key][idx + 1]

\* mutant of get_stat: the index is ignored
get_stat_noidx(stats_dict, key, idx) ==
  IF stats_dict = None THEN 0 ELSE stats_dict[key][1]

\* get_stat of _build_result; idx is 0-based as in the source
get_stat(stats_dict, key, idx) ==
  IF stats_dict = None THEN 0 ELSE stats_dict[key][idx + 1]

\* mutant of comparative_passed: the threshold itself passes
comparative_passed_le(qr_ohp) == qr_ohp <= COMPARATIVE_PASS_PCT

\* passed = qr_ohp < 15.0
comparative_passed(qr_ohp) == qr_ohp < COMPARATIVE_PASS_PCT

\* _build_result: the parser afterwards and the value returned (or ValueError)
_build_result(self, output) ==
  IF /\ self.qr_standard_stats = None /\ self.barcode_stats = None
     /\ self.qr_stress_stats = None
  THEN [self |-> self, result |-> None]
  ELSE LET qr_ohp == get_stat(self.qr_standard_stats, "overhead", 1)
           c == _parse_categories(self, output)
           d == _parse_details(c.self, output)
           passed == comparative_passed(qr_ohp)
       IN IF c.raised THEN [self |-> c.self, result |-> ValueError("_parse_categories")]
          ELSE IF d.raised THEN [self |-> d.self, result |-> ValueError("_parse_details")]
          ELSE [self |-> d.self,
                result |->
                  [kind |-> "Comparative", mode |-> "",
                   qr_baseline_ms |-> get_stat(self.qr_standard_stats, "baseline", 0),
                   qr_all_ms |-> get_stat(self.qr_standard_stats, "all", 0),
                   qr_overhead_ms |-> get_stat(self.qr_standard_stats, "overhead", 0),
                   qr_overhead_pct |-> qr_ohp,
                   qr_stress_baseline_ms |-> get_stat(self.qr_stress_stats, "baseline", 0),
                   qr_stress_all_ms |-> get_stat(self.qr_stress_stats, "all", 0),
                   qr_stress_overhead_ms |-> get_stat(self.qr_stress_stats, "overhead", 0),
                   qr_stress_overhead_pct |-> get_stat(self.qr_stress_stats, "overhead", 1),
                   qr_categories |-> d.self.qr_cats,
                   barcode_categories |-> d.self.bc_cats,
                   barcode_baseline_ms |-> get_stat(self.barcode_stats, "baseline", 0),
                   barcode_all_ms |-> get_stat(self.barcode_stats, "all", 0),
                   barcode_overhead_ms |-> get_stat(self.barcode_stats, "overhead", 0),
                   barcode_overhead_pct |-> get_stat(self.barcode_stats, "overhead", 1),
                   passed |-> passed,
                   details |-> d.self.details]]

\* ------------------------------------------------------------------ state
VARIABLES
  output,   \* the text being parsed (see Text)
  pc,       \* "start": before parse_benchmark_output; "lines": inside the loop
            \* of BenchmarkParser.parse; "done": the call returned or raised
  parser,   \* the BenchmarkParser object (None before it is constructed)
  result,   \* what parse_benchmark_output returned: None, a Legacy or a
            \* Comparative result, or ValueError when it raised
  own,      \* history: the readings and overheads of the lines read since the
            \* last non-decorative header
  ended,    \* history: the section closed by the last step, if any
  text,     \* a captured stdout as a whole: its whole-text facts and its lines
  calls,    \* what the successive calls parse_benchmark_output(text) gave
  args,     \* main: the parsed command line
  env,      \* main: what the process finds around it (files, set order)
  jit_result,  \* main: jit_result
  aot_result,  \* main: aot_result
  printed,  \* main: the messages printed so far, in order
  files,    \* main: the files written so far
  exit_code,   \* main: the exit status, NotExited while the process runs
  mpc,      \* main: the position of main
  report,   \* main: the cross-run report of generate_comparison_report
  disk,     \* the JSON text save_results wrote (None before)
  loaded    \* what load_results returned for that file (NotLoaded before)

parseVars == <<output, pc, parser, result, own, ended>>
logVars == <<text, calls>>
mainVars == <<args, env, jit_result, aot_result, printed, files, exit_code, mpc, report>>
fileVars == <<disk, loaded>>
vars == <<parseVars, logVars, mainVars, fileVars>>

Pending == [kind |-> "pending"]
NoOwn == [avgs |-> <<>>, ohs |-> <<>>]
NotExited == -1
NotLoaded == [kind |-> "not loaded"]

\* no stdout is held for a second call
LogIdle ==
  /\ text = None
  /\ calls = <<>>

\* no snapshot file was written or read
FileIdle ==
  /\ disk = None
  /\ loaded = NotLoaded

\* main is not running
MainIdle ==
  /\ args = None
  /\ env = None
  /\ jit_result = None
  /\ aot_result = None
  /\ printed = <<>>
  /\ files = {}
  /\ exit_code = NotExited
  /\ mpc = "idle"
  /\ report = None

Init ==
  /\ output \in Outputs
  /\ pc = "start"
  /\ parser = None
  /\ result = Pending
  /\ own = NoOwn
  /\ ended = None
  /\ LogIdle
  /\ MainIdle
  /\ FileIdle

\* the shapes of a line, as _process_line tells them apart
IsSectionHeader(line) ==
  ~line.blank /\ line.header # NoHeader /\ ~Contains("Metrics", line.header)
IsDecorativeHeader(line) ==
  ~line.blank /\ line.header # NoHeader /\ Contains("Metrics", line.header)
IsReading(line) ==
  ~line.blank /\ line.header = NoHeader /\ line.yomu /\ line.stats # NoMatch
IsOverhead(line) ==
  ~line.blank /\ line.header = NoHeader /\ line.oh # NoMatch

RECURSIVE CatMatchCount(_, _)
CatMatchCount(out, k) ==
  IF k > Len(CatOrder) THEN 0
  ELSE Len(out.cats[CatOrder[k]]) + CatMatchCount(out, k + 1)

\* the text with one more line: what findall will see of it
Feed(out, line) ==
  [out EXCEPT !.nlines = @ + 1,
              !.details = IF line.det # NoMatch THEN Append(@, line.det) ELSE @,
              !.cats = IF line.cat # NoMatch
                       THEN [@ EXCEPT ![line.cat[1]] = Append(@, <<line.cat[2], line.cat[3]>>)]
                       ELSE @]

\* the record of a section at the moment _commit_section closes it
Ended(self, o) ==
  IF self.current_section = NoSection THEN None
  ELSE [kind |-> "ended", section |-> self.current_section,
        own_avgs |-> o.avgs, own_ohs |-> o.ohs,
        avgs |-> self.section_avgs, overhead |-> self.section_overhead,
        stored |-> CommitSection(self).stored]

\* mutant of parse_benchmark_output: Legacy parsing is tried first
parse_benchmark_output_legacy_first ==
  /\ pc = "start"
  /\ IF output.marker /\ _parse_legacy(output) = None
     THEN /\ parser' = BenchmarkParser
          /\ pc' = "lines"
          /\ result' = result
     ELSE /\ result' = _parse_legacy(output)
          /\ pc' = "done"
          /\ parser' = parser
  /\ UNCHANGED <<output, own, ended, logVars, mainVars, fileVars>>

\* parse_benchmark_output: the dispatch on the marker; the Legacy path returns
\* at once, the Comparative path constructs the parser and enters the loop
parse_benchmark_output ==
  /\ pc = "start"
  /\ IF output.marker
     THEN /\ parser' = BenchmarkParser
          /\ pc' = "lines"
          /\ result' = result
     ELSE /\ result' = _parse_legacy(output)
          /\ pc' = "done"
          /\ parser' = parser
  /\ UNCHANGED <<output, own, ended, logVars, mainVars, fileVars>>

\* one iteration of `for line in lines: self._process_line(line)`
parse_line(line) ==
  /\ pc = "lines"
  /\ output.nlines < MaxLines
  /\ line.det # NoMatch => Len(output.details) < MaxDetails
  /\ line.cat # NoMatch => CatMatchCount(output, 1) < MaxCatLines
  /\ output' = Feed(output, line)
  /\ UNCHANGED <<logVars, mainVars, fileVars>>
  /\ LET r == _process_line(parser, line)
     IN IF r.raised
        THEN \* the exception leaves _parse_comparative: its parser object is gone
             /\ pc' = "done"
             /\ result' = ValueError("_process_line")
             /\ parser' = None
             /\ own' = NoOwn
             /\ ended' = None
        ELSE /\ parser' = r.self
             /\ UNCHANGED <<pc, result>>
             /\ ended' = IF IsSectionHeader(line) THEN Ended(parser, own) ELSE None
             /\ own' = IF IsSectionHeader(line) THEN NoOwn
                       ELSE [avgs |-> IF IsReading(line)
                                      THEN Append(own.avgs, <<float(line.stats[1]).v,
                                                              float(line.stats[2]).v>>)
                                      ELSE own.avgs,
                             ohs |-> IF IsOverhead(line)
                                     THEN Append(own.ohs, <<float(line.oh[1]).v,
                                                            float(line.oh[2]).v>>)
                                     ELSE own.ohs]

\* the end of parse: the last _commit_section and _build_result
parse_return ==
  /\ pc = "lines"
  /\ \E b \in {_build_result(_commit_section(parser), output)} :
        /\ parser' = b.self
        /\ result' = b.result
  /\ ended' = Ended(parser, own)
  /\ pc' = "done"
  /\ UNCHANGED <<output, own, logVars, mainVars, fileVars>>

Next ==
  \/ parse_benchmark_output
  \/ \E line \in Lines : parse_line(line)
  \/ parse_return

Spec == Init /\ [][Next]_vars

\* the same program on logs that mix the marker with Legacy lines
InitMixed ==
  /\ output \in MixedOutputs
  /\ pc = "start"
  /\ parser = None
  /\ result = Pending
  /\ own = NoOwn
  /\ ended = None
  /\ LogIdle
  /\ MainIdle
  /\ FileIdle

NextMixed ==
  \/ parse_benchmark_output
  \/ \E line \in MixedLines : parse_line(line)
  \/ parse_return

SpecMixed == InitMixed /\ [][NextMixed]_vars

\* the same program on Comparative logs with DETAILS and category lines
ExtractLines ==
  { Line("QR Code Standard", FALSE, NoMatch, NoMatch, NoMatch, NoMatch),
    Line(NoHeader, TRUE, <<Tok_1_0, Tok_9_0>>, NoMatch, NoMatch, NoMatch),
    Line(NoHeader, TRUE, <<Tok_2_0, Tok_9_0>>, <<Tok_p0_5, Tok_14_99>>, NoMatch, NoMatch) }
    \cup DetailLines \cup CategoryLines

InitExtract ==
  /\ output = Text(TRUE, NoLegacyFacts)
  /\ pc = "start"
  /\ parser = None
  /\ result = Pending
  /\ own = NoOwn
  /\ ended = None
  /\ LogIdle
  /\ MainIdle
  /\ FileIdle

NextExtract ==
  \/ parse_benchmark_output
  \/ \E line \in ExtractLines : parse_line(line)
  \/ parse_return

SpecExtract == InitExtract /\ [][NextExtract]_vars

TypeOK ==
  /\ pc \in {"start", "lines", "done"}
  /\ result.kind \in {"pending", "None", "ValueError", "Legacy", "Comparative"}
  /\ parser = None \/ parser.current_section \in Labels \cup {NoSection}
  /\ (pc = "done") = (result # Pending)

\* ------------------------------------------- a whole stdout, parsed again
MaxAppended == 5       \* lines the benchmark process appends to a log

\* the lines of a complete QR-standard section (1.0 -> 2.0, +0.5ms, 14.99%)
QRSection ==
  << Line("QR Code Standard", FALSE, NoMatch, NoMatch, NoMatch, NoMatch),
     Line(NoHeader, TRUE, <<Tok_1_0, Tok_9_0>>, NoMatch, NoMatch, NoMatch),
     Line(NoHeader, TRUE, <<Tok_2_0, Tok_9_0>>, <<Tok_p0_5, Tok_14_99>>, NoMatch, NoMatch) >>

\* a stdout: its whole-text facts, its lines in order, and how many of them
\* were printed since the initial state
Stdout(facts, lines) == [facts |-> facts, lines |-> lines, appended |-> 0]

LegacySummary ==
  [total_match |-> <<Tok_100, Tok_100>>, time_match |-> <<Tok_50000>>,
   avg_match |-> <<Tok_4_99>>, pass_explicit |-> FALSE]

\* what the whole-text searches (findall) see of the text
RECURSIVE FeedFrom(_, _, _)
FeedFrom(out, lines, k) ==
  IF k > Len(lines) THEN out ELSE FeedFrom(Feed(out, lines[k]), lines, k + 1)

OutputOf(t) == FeedFrom(t.facts, t.lines, 1)

\* for line in lines: self._process_line(line), from the k-th line on
RECURSIVE ProcessLines(_, _, _)
ProcessLines(self, lines, k) ==
  IF k > Len(lines) THEN [self |-> self, raised |-> FALSE]
  ELSE IF _process_line(self, lines[k]).raised THEN [self |-> self, raised |-> TRUE]
  ELSE ProcessLines(_process_line(self, lines[k]).self, lines, k + 1)

\* BenchmarkParser.parse: the parser afterwards and the value returned
parse(self, t) ==
  IF ProcessLines(self, t.lines, 1).raised
  THEN [self |-> None, result |-> ValueError("_process_line")]
  ELSE _build_result(_commit_section(ProcessLines(self, t.lines, 1).self), OutputOf(t))

\* mutant of FreshParser: one parser object serves every call
FreshParser_shared == IF parser = None THEN BenchmarkParser ELSE parser

\* BenchmarkParser() of _parse_comparative: a new object on every call
FreshParser == BenchmarkParser

_parse_comparative(t) == parse(FreshParser, t)

\* parse_benchmark_output on a whole text: the parser object the call leaves
\* behind (unreachable garbage in the program) and the value returned
ParseBenchmarkOutput(t) ==
  IF t.facts.marker THEN _parse_comparative(t)
  ELSE [self |-> parser, result |-> _parse_legacy(t.facts)]

\* the benchmark process prints one more line
write_line(line) ==
  /\ text # None
  /\ calls = <<>>
  /\ text.appended < MaxAppended
  /\ text' = [text EXCEPT !.lines = Append(@, line), !.appended = @ + 1]
  /\ UNCHANGED <<calls, parseVars, mainVars, fileVars>>

\* parse_benchmark_output(text), once more on the same text
call ==
  /\ text # None
  /\ Len(calls) < 2
  /\ \E r \in {ParseBenchmarkOutput(text)} :
        /\ calls' = Append(calls, r.result)
        /\ parser' = r.self
  /\ UNCHANGED <<text, output, pc, result, own, ended, mainVars, fileVars>>

ParseIdle ==
  /\ output = Text(FALSE, NoLegacyFacts)
  /\ pc = "start"
  /\ parser = None
  /\ result = Pending
  /\ own = NoOwn
  /\ ended = None

\* logs of every shape, parsed twice
TwiceLines ==
  { Line("Barcode", FALSE, NoMatch, NoMatch, NoMatch, NoMatch),
    Line(NoHeader, TRUE, <<Tok_1_0, Tok_9_0>>, NoMatch, NoMatch, NoMatch),
    Line(NoHeader, TRUE, <<Tok_2_0, Tok_9_0>>, <<Tok_p0_5, Tok_14_99>>, NoMatch, NoMatch),
    Line(NoHeader, FALSE, NoMatch, NoMatch,
         <<"img1.png", Tok_1_0, Tok_2_0, "+1.000">>, NoMatch),
    Line(NoHeader, FALSE, NoMatch, NoMatch, NoMatch, <<"Standard", Tok_1_0, Tok_9_0>>) }

InitTwice ==
  /\ text \in { Stdout(Text(TRUE, NoLegacyFacts), <<>>),
                Stdout(Text(TRUE, NoLegacyFacts), QRSection),
                Stdout(Text(FALSE, LegacySummary), <<>>) }
  /\ calls = <<>>
  /\ ParseIdle
  /\ MainIdle
  /\ FileIdle

NextTwice ==
  \/ \E line \in TwiceLines : write_line(line)
  \/ call

SpecTwice == InitTwice /\ [][NextTwice]_vars

\* Comparative logs with category lines
CategoryAlphabet ==
  { Line(NoHeader, FALSE, NoMatch, NoMatch, NoMatch, <<"Standard", Tok_1_0, Tok_9_0>>),
    Line(NoHeader, FALSE, NoMatch, NoMatch, NoMatch, <<"Standard", Tok_2_0, Tok_4_99>>),
    Line(NoHeader, FALSE, NoMatch, NoMatch, NoMatch, <<"Complex", Tok_5_0, Tok_9_0>>),
    Line(NoHeader, FALSE, NoMatch, NoMatch, NoMatch, <<"Edge", Tok_1_2_3, Tok_9_0>>),
    Line("Barcode", FALSE, NoMatch, NoMatch, NoMatch, NoMatch) }

InitCategories ==
  /\ text = Stdout(Text(TRUE, NoLegacyFacts), QRSection)
  /\ calls = <<>>
  /\ ParseIdle
  /\ MainIdle
  /\ FileIdle

NextCategories ==
  \/ \E line \in CategoryAlphabet : write_line(line)
  \/ call

SpecCategories == InitCategories /\ [][NextCategories]_vars

\* Comparative logs with DETAILS lines
DetailAlphabet ==
  DetailLines \cup
  { Line(NoHeader, FALSE, NoMatch, NoMatch,
         <<"img3.png", Tok_2_0, Tok_1_0, "-0.020">>, NoMatch),
    Line("Barcode", FALSE, NoMatch, NoMatch, NoMatch, NoMatch) }

NextDetails ==
  \/ \E line \in DetailAlphabet : write_line(line)
  \/ call

SpecDetails == InitCategories /\ [][NextDetails]_vars

\* ------------------------------------------------ the cross-run report
NOISE_MS == 50               \* abs(diff) < 0.05
UNKNOWN_SORT_KEY == 999      \* sort_key of a category outside cat_order

\* dict.get(key, default) of a JSON object
Get(d, key, default) == IF key \in DOMAIN d THEN d[key] ELSE default

\* the entry of a snapshot for one mode, as save_results writes it: null, or
\* the fields of the result; of a Comparative entry only the keys that
\* generate_comparison_report reads are kept
ComparativeEntry(mode, qr_all, bar_all, cats) ==
  [mode |-> mode, qr_all_ms |-> qr_all, barcode_all_ms |-> bar_all,
   qr_categories |-> cats]

LegacyEntry(mode) ==
  [mode |-> mode, total_images |-> 100, success_count |-> 100,
   total_time_us |-> 50000, avg_time_ms |-> 4990, passed |-> TRUE]

Snapshot(jit, aot) == [jit |-> jit, aot |-> aot]

\* mutant of get_metric: a null entry counts as 1.0
get_metric_null_as_one(data, key) == IF data = None THEN 1000 ELSE Get(data, key, 0)

\* get_metric of generate_comparison_report (the nested_key branch is never
\* asked for)
get_metric(data, key) == IF data = None THEN 0 ELSE Get(data, key, 0)

\* abs(target - base) < 0.05 on doubles.  The comparison agrees with the
\* decimal one unless the decimal difference is exactly 0.05, where the double
\* difference can fall below the double 0.05: 2.05 - 2.0 is
\* 0.04999999999999982, while 0.05 - 0.0 and 1.05 - 1.0 are not below it.
\* RoundsBelow lists the pairs of the value alphabet where it does.
RoundsBelow == {<<2000, 2050>>, <<2050, 2000>>}

Abs(x) == IF x < 0 THEN 0 - x ELSE x

AbsDiffBelowNoise(base, target) ==
  \/ Abs(target - base) < NOISE_MS
  \/ Abs(target - base) = NOISE_MS /\ <<base, target>> \in RoundsBelow

\* mutant of Pct: the division is not guarded
Pct_unguarded(diff, base) ==
  IF base = 0 THEN [ok |-> FALSE, v |-> 0]
  ELSE [ok |-> TRUE, v |-> (diff * 100000) \div base]

\* pct = (diff / base * 100) if base > 0 else 0, in thousandths of a percent
\* rounded down; ok = FALSE is ZeroDivisionError
Pct(diff, base) ==
  IF base > 0 THEN [ok |-> TRUE, v |-> (diff * 100000) \div base]
  ELSE [ok |-> TRUE, v |-> 0]

\* the icon of row: the green circle (improved), the red circle (regressed)
\* or, under the noise threshold, the white circle (neutral)
Icon(base, target) ==
  IF AbsDiffBelowNoise(base, target) THEN "neutral"
  ELSE IF target - base <= 0 THEN "improved" ELSE "regressed"

\* row of generate_comparison_report, by the values it formats
row(label, base, target) ==
  [label |-> label, base |-> base, target |-> target, diff |-> target - base,
   pct |-> Pct(target - base, base), icon |-> Icon(base, target)]

\* the unknown category names of the snapshot alphabet
UnknownCats == {"Tiny", "Blur"}

\* the order in which a Python set of these names iterates, which varies from
\* one process to another (string hashing): one of two orders
SetOrder(seed) ==
  IF seed THEN <<"Tiny", "Edge", "Blur", "Standard", "Noise", "Complex", "HiRes", "Distorted">>
  ELSE <<"Distorted", "Blur", "HiRes", "Complex", "Noise", "Standard", "Tiny", "Edge">>

\* the elements of the set S in iteration order
Iterate(S, seed) ==
  LET In(k) == k \in S IN SelectSeq(SetOrder(seed), In)

\* mutant of sort_key: unknown categories sort first
sort_key_first(k) ==
  IF k \in CatNames THEN (CHOOSE i \in 1..Len(CatOrder) : CatOrder[i] = k) - 1
  ELSE 0 - 1

\* sort_key: cat_order.index(k), or 999
sort_key(k) ==
  IF k \in CatNames THEN (CHOOSE i \in 1..Len(CatOrder) : CatOrder[i] = k) - 1
  ELSE UNKNOWN_SORT_KEY

\* sorted(it, key=sort_key): stable, by insertion from the k-th element on
RECURSIVE InsertSorted(_, _, _)
InsertSorted(done, x, i) ==
  IF i > Len(done) THEN Append(done, x)
  ELSE IF sort_key(done[i]) > sort_key(x)
  THEN SubSeq(done, 1, i - 1) \o <<x>> \o SubSeq(done, i, Len(done))
  ELSE InsertSorted(done, x, i + 1)

RECURSIVE sorted(_, _, _)
sorted(it, k, done) ==
  IF k > Len(it) THEN done ELSE sorted(it, k + 1, InsertSorted(done, it[k], 1))

\* cats.get(cat, [0, 0, 0, 0])[2] if cat in cats else 0
CatValue(cats, cat) == IF cat \in DOMAIN cats THEN cats[cat][3] ELSE 0

\* one line of the category table
cat_row(cat, b_val, t_val) ==
  [cat |-> cat, b_val |-> b_val, t_val |-> t_val, diff |-> t_val - b_val,
   pct |-> Pct(t_val - b_val, b_val)]

\* aot.get("qr_categories", {}) if aot else {}
CatsOf(aot) == IF aot = None THEN EmptyDict ELSE Get(aot, "qr_categories", EmptyDict)

\* the category rows, in the order of sorted(all_cats, key=sort_key)
CatRows(base_cats, target_cats, order) ==
  [i \in 1..Len(order) |->
     cat_row(order[i], CatValue(base_cats, order[i]), CatValue(target_cats, order[i]))]

\* the report of generate_comparison_report for the two "aot" entries
ReportOf(base_aot, target_aot, seed) ==
  [warning |-> (base_aot = None \/ target_aot = None),
   main |-> << row("QR Code Avg", get_metric(base_aot, "qr_all_ms"),
                   get_metric(target_aot, "qr_all_ms")),
               row("Barcode Avg", get_metric(base_aot, "barcode_all_ms"),
                   get_metric(target_aot, "barcode_all_ms")) >>,
   cat_table |-> (DOMAIN CatsOf(base_aot) \cup DOMAIN CatsOf(target_aot) # {}),
   cats |-> CatRows(CatsOf(base_aot), CatsOf(target_aot),
                    sorted(Iterate(DOMAIN CatsOf(base_aot) \cup DOMAIN CatsOf(target_aot),
                                   seed), 1, <<>>))]

\* mutant of AotOf: the "jit" entry stands in for a missing "aot" entry
AotOf_fallback(data) ==
  IF Get(data, "aot", None) = None THEN Get(data, "jit", None) ELSE data.aot

\* data.get("aot"): None also when the key is missing
AotOf(data) == Get(data, "aot", None)

generate_comparison_report(base_data, target_data, seed) ==
  ReportOf(AotOf(base_data), AotOf(target_data), seed)

\* an exception left generate_comparison_report (ZeroDivisionError)
ReportRaised(r) ==
  \/ \E i \in 1..Len(r.main) : ~r.main[i].pct.ok
  \/ \E i \in 1..Len(r.cats) : ~r.cats[i].pct.ok

\* ------------------------------------------- save_results, load_results
\* the character of a decimal digit
DigitChar(d) == <<"0", "1", "2", "3", "4", "5", "6", "7", "8", "9">>[d + 1]

\* the decimal digits of a natural number, as json.dump writes an int
RECURSIVE Digits(_)
Digits(n) ==
  IF n < 10 THEN <<DigitChar(n)>>
  ELSE Append(Digits(n \div 10), DigitChar(n % 10))

\* mutant of float_repr: one fractional digit is written
float_repr_1dp(v) ==
  (IF v < 0 THEN <<"-">> ELSE <<>>) \o Digits(Abs(v) \div 1000)
    \o <<".", DigitChar((Abs(v) % 1000) \div 100)>>

\* float.__repr__, which json.dump writes for a float: the shortest digits
\* that read back as the same value, with at least one fractional digit
\* (v in thousandths)
float_repr(v) ==
  (IF v < 0 THEN <<"-">> ELSE <<>>) \o Digits(Abs(v) \div 1000) \o <<".">>
    \o (IF Abs(v) % 1000 = 0 THEN <<"0">>
        ELSE IF Abs(v) % 100 = 0 THEN <<DigitChar((Abs(v) % 1000) \div 100)>>
        ELSE IF Abs(v) % 10 = 0
        THEN <<DigitChar((Abs(v) % 1000) \div 100), DigitChar((Abs(v) % 100) \div 10)>>
        ELSE <<DigitChar((Abs(v) % 1000) \div 100), DigitChar((Abs(v) % 100) \div 10),
               DigitChar(Abs(v) % 10)>>)

\* the values of a JSON text
json_null == [type |-> "null"]
json_bool(b) == [type |-> IF b THEN "true" ELSE "false"]
json_number(digits) == [type |-> "number", text |-> digits]
json_string(str) == [type |-> "string", text |-> str]
json_array(items) == [type |-> "array", items |-> items]
json_object(members) == [type |-> "object", members |-> members]

\* dataclasses.asdict: the fields of the dataclass by name (kind is the class
\* of the object and no field of it)
asdict(obj) == [f \in DOMAIN obj \ {"kind"} |-> obj[f]]

\* the int fields of LegacyBenchmarkResult
IntFields == {"total_images", "success_count", "total_time_us"}

\* the dict fields of ComparativeBenchmarkResult
CatFields == {"qr_categories", "barcode_categories"}

\* what json.dump writes for the value of a field, by the type the field holds
json_dump_field(name, v) ==
  IF name = "mode" THEN json_string(v)
  ELSE IF name = "passed" THEN json_bool(v)
  ELSE IF name \in IntFields THEN json_number(Digits(v))
  ELSE IF name \in CatFields
  THEN json_object([c \in DOMAIN v |->
         json_array([i \in 1..Len(v[c]) |-> json_number(float_repr(v[c][i]))])])
  ELSE IF name = "details"
  THEN json_array([i \in 1..Len(v) |->
         json_array(<<json_string(v[i][1]), json_number(float_repr(v[i][2])),
                      json_number(float_repr(v[i][3])), json_string(v[i][4])>>)])
  ELSE json_number(float_repr(v))

\* json.dump of asdict(result), or of None
json_dump_result(res) ==
  IF res = None THEN json_null
  ELSE json_object([f \in DOMAIN asdict(res) |-> json_dump_field(f, asdict(res)[f])])

\* save_results: the text written to the file
save_results(jit, aot) ==
  json_object([jit |-> json_dump_result(jit), aot |-> json_dump_result(aot)])

\* json.load: null is None, a number with a '.' is a float and one without an
\* int, an array is a list, an object a dict
RECURSIVE json_load(_)
json_load(j) ==
  CASE j.type = "null" -> None
    [] j.type = "true" -> TRUE
    [] j.type = "false" -> FALSE
    [] j.type = "number" ->
         IF \E i \in 1..Len(j.text) : j.text[i] = "." THEN float(j.text).v
         ELSE int(j.text)
    [] j.type = "string" -> j.text
    [] j.type = "array" -> [i \in 1..Len(j.items) |-> json_load(j.items[i])]
    [] j.type = "object" -> [k \in DOMAIN j.members |-> json_load(j.members[k])]

\* -------------------------------------------------------------- main
\* the stdout of a benchmark process, by what the parser makes of it
LegacyPassText == Stdout(Text(FALSE, LegacySummary), <<>>)

LegacyWarnText ==
  Stdout(Text(FALSE, [LegacySummary EXCEPT !.avg_match = <<Tok_5_0>>]), <<>>)

NoSummaryText == Stdout(Text(FALSE, NoLegacyFacts), <<>>)

ComparativePassText == Stdout(Text(TRUE, NoLegacyFacts), QRSection)

ComparativeWarnText ==
  Stdout(Text(TRUE, NoLegacyFacts),
         << Line("QR Code Standard", FALSE, NoMatch, NoMatch, NoMatch, NoMatch),
            Line(NoHeader, TRUE, <<Tok_2_0, Tok_9_0>>, NoMatch, NoMatch, NoMatch),
            Line(NoHeader, TRUE, <<Tok_1_0, Tok_9_0>>, <<Tok_p0_6, Tok_15_0>>, NoMatch, NoMatch) >>)

NoSectionText == Stdout(Text(TRUE, NoLegacyFacts), <<>>)

MalformedText ==
  Stdout(Text(TRUE, NoLegacyFacts),
         Append(QRSection, Line(NoHeader, FALSE, NoMatch, NoMatch,
                                <<"img2.png", Tok_abc, Tok_2_0, "-0.020">>, NoMatch)))

RunTexts ==
  {LegacyPassText, LegacyWarnText, NoSummaryText, ComparativePassText,
   ComparativeWarnText, NoSectionText, MalformedText}

\* what the external commands of one run do: the exit code of the compilation
\* (AOT only), the exit code of the benchmark and its stdout
Proc(compile_code, code, stdout) ==
  [compile_code |-> compile_code, code |-> code, stdout |-> stdout]

JitProcs == {Proc(0, 1, NoSummaryText)} \cup {Proc(0, 0, t) : t \in RunTexts}

AotProcs == {Proc(1, 0, NoSummaryText)} \cup JitProcs

\* the tail of run_jit_benchmark and run_aot_benchmark: parse the stdout and
\* label the result; raised = TRUE when parse_benchmark_output raised
ParsedRun(stdout, mode, said) ==
  IF ParseBenchmarkOutput(stdout).result.kind = "ValueError"
  THEN [result |-> None, printed |-> said, raised |-> TRUE,
        parser |-> ParseBenchmarkOutput(stdout).self]
  ELSE [result |-> IF ParseBenchmarkOutput(stdout).result = None THEN None
                   ELSE [ParseBenchmarkOutput(stdout).result EXCEPT !.mode = mode],
        printed |-> said, raised |-> FALSE,
        parser |-> ParseBenchmarkOutput(stdout).self]

run_jit_benchmark(proc) ==
  IF proc.code # 0
  THEN [result |-> None, printed |-> <<"running_jit", "jit_failed_stderr">>,
        raised |-> FALSE, parser |-> parser]
  ELSE ParsedRun(proc.stdout, "JIT", <<"running_jit">>)

run_aot_benchmark(proc) ==
  IF proc.compile_code # 0
  THEN [result |-> None, printed |-> <<"compiling", "compilation_failed">>,
        raised |-> FALSE, parser |-> parser]
  ELSE IF proc.code # 0
  THEN [result |-> None, printed |-> <<"compiling", "running_aot", "aot_failed_stderr">>,
        raised |-> FALSE, parser |-> parser]
  ELSE ParsedRun(proc.stdout, "AOT", <<"compiling", "running_aot">>)

\* mutant of print_comparison: the second branch asks only whether jit is
\* Comparative
print_comparison_jit_only(jit, aot) ==
  IF jit.kind = "Legacy" /\ aot.kind = "Legacy"
  THEN [printed |-> <<"comparison_banner", "legacy_table">>, files |-> {}]
  ELSE IF jit.kind = "Comparative"
  THEN [printed |-> <<"comparison_banner", "comparative_table", "report_saved">>,
        files |-> {"benchmark_summary.md"}]
  ELSE [printed |-> <<"comparison_banner", "error_mixed">>, files |-> {}]

\* print_comparison: what it prints and the files it writes
print_comparison(jit, aot) ==
  IF jit.kind = "Legacy" /\ aot.kind = "Legacy"
  THEN [printed |-> <<"comparison_banner", "legacy_table">>, files |-> {}]
  ELSE IF jit.kind = "Comparative" /\ aot.kind = "Comparative"
  THEN [printed |-> <<"comparison_banner", "comparative_table", "report_saved">>,
        files |-> {"benchmark_summary.md"}]
  ELSE [printed |-> <<"comparison_banner", "error_mixed">>, files |-> {}]

\* lines 759-765 of main: the comparison when both results are there,
\* otherwise the one that is
Reporting(jit, aot) ==
  IF jit # None /\ aot # None THEN print_comparison(jit, aot)
  ELSE IF jit # None THEN [printed |-> <<"single_result_jit">>, files |-> {}]
  ELSE IF aot # None THEN [printed |-> <<"single_result_aot">>, files |-> {}]
  ELSE [printed |-> <<>>, files |-> {}]

\* lines 767-769 of main
Saving(save) ==
  IF save THEN [printed |-> <<"results_saved">>, files |-> {"results.json"}]
  ELSE [printed |-> <<>>, files |-> {}]

\* success of main, lines 774-778
Success(mode, jit, aot) ==
  /\ mode \in {"jit", "all"} => (jit # None /\ jit.passed)
  /\ mode \in {"aot", "all"} => (aot # None /\ aot.passed)

\* mutant of final_exit_code: a failed or warned run exits with 1
final_exit_code_fail(success) == IF success THEN 0 ELSE 1

\* the final status, lines 781-786: sys.exit(0) on both branches
final_exit_code(success) == IF success THEN 0 ELSE 0

\* load_results raised: the file is missing or holds no JSON
Unreadable == [kind |-> "unreadable"]

\* comparison mode, lines 700-716
main_compare ==
  /\ mpc = "start"
  /\ args.compare
  /\ IF env.base = Unreadable \/ env.target = Unreadable
     THEN /\ printed' = <<"comparing", "comparison_failed">>
          /\ exit_code' = 1
          /\ UNCHANGED <<report, files>>
     ELSE \E r \in {generate_comparison_report(env.base, env.target, env.seed)} :
            IF ReportRaised(r)
            THEN /\ printed' = <<"comparing", "comparison_failed">>
                 /\ exit_code' = 1
                 /\ UNCHANGED <<report, files>>
            ELSE /\ report' = r
                 /\ files' = files \cup {"benchmark_comparison.md"}
                 /\ printed' = <<"comparing", "report", "comparison_saved">>
                 /\ exit_code' = 0
  /\ mpc' = "exited"
  /\ UNCHANGED <<args, env, jit_result, aot_result, parseVars, logVars, fileVars>>

\* normal mode, the checks of lines 719-735
main_checks ==
  /\ mpc = "start"
  /\ ~args.compare
  /\ IF ~env.script
     THEN printed' = <<"script_not_found">> /\ exit_code' = 1 /\ mpc' = "exited"
     ELSE IF ~env.fixtures
     THEN printed' = <<"images_not_found">> /\ exit_code' = 1 /\ mpc' = "exited"
     ELSE printed' = <<"banner">> /\ exit_code' = exit_code /\ mpc' = "jit"
  /\ UNCHANGED <<args, env, jit_result, aot_result, files, report, parseVars, logVars,
                 fileVars>>

\* lines 742-749: the JIT run
main_run_jit(proc) ==
  /\ mpc = "jit"
  /\ IF args.mode \in {"jit", "all"}
     THEN \E r \in {run_jit_benchmark(proc)} :
            /\ parser' = r.parser
            /\ IF r.raised
               THEN \* the ValueError leaves main: traceback, exit status 1
                    /\ printed' = printed \o r.printed \o <<"traceback">>
                    /\ exit_code' = 1
                    /\ mpc' = "crashed"
                    /\ jit_result' = jit_result
               ELSE /\ jit_result' = r.result
                    /\ IF r.result = None
                       THEN IF args.mode = "jit"
                            THEN /\ printed' = printed \o r.printed \o <<"jit_failed">>
                                 /\ exit_code' = 1
                                 /\ mpc' = "exited"
                            ELSE /\ printed' = printed \o r.printed \o <<"jit_failed">>
                                 /\ exit_code' = exit_code
                                 /\ mpc' = "aot"
                       ELSE /\ printed' = printed \o r.printed
                            /\ exit_code' = exit_code
                            /\ mpc' = "aot"
     ELSE /\ mpc' = "aot"
          /\ UNCHANGED <<parser, printed, exit_code, jit_result>>
  /\ UNCHANGED <<args, env, aot_result, files, report, output, pc, result, own, ended,
                 logVars, fileVars>>

\* lines 751-757: the AOT run
main_run_aot(proc) ==
  /\ mpc = "aot"
  /\ IF args.mode \in {"aot", "all"}
     THEN \E r \in {run_aot_benchmark(proc)} :
            /\ parser' = r.parser
            /\ IF r.raised
               THEN /\ printed' = printed \o r.printed \o <<"traceback">>
                    /\ exit_code' = 1
                    /\ mpc' = "crashed"
                    /\ aot_result' = aot_result
               ELSE /\ aot_result' = r.result
                    /\ IF r.result = None
                       THEN IF args.mode = "aot"
                            THEN /\ printed' = printed \o r.printed \o <<"aot_failed">>
                                 /\ exit_code' = 1
                                 /\ mpc' = "exited"
                            ELSE /\ printed' = printed \o r.printed \o <<"aot_failed">>
                                 /\ exit_code' = exit_code
                                 /\ mpc' = "report"
                       ELSE /\ printed' = printed \o r.printed
                            /\ exit_code' = exit_code
                            /\ mpc' = "report"
     ELSE /\ mpc' = "report"
          /\ UNCHANGED <<parser, printed, exit_code, aot_result>>
  /\ UNCHANGED <<args, env, jit_result, files, report, output, pc, result, own, ended,
                 logVars, fileVars>>

\* lines 759-786: report, save, final status
main_report ==
  /\ mpc = "report"
  /\ printed' = printed \o Reporting(jit_result, aot_result).printed
                  \o Saving(args.save).printed \o <<"total_time">>
                  \o IF Success(args.mode, jit_result, aot_result)
                     THEN <<"benchmarks_passed">> ELSE <<"benchmarks_failed_or_warned">>
  /\ files' = files \cup Reporting(jit_result, aot_result).files \cup Saving(args.save).files
  /\ exit_code' = final_exit_code(Success(args.mode, jit_result, aot_result))
  /\ mpc' = "exited"
  /\ disk' = IF args.save THEN save_results(jit_result, aot_result) ELSE disk
  /\ UNCHANGED <<args, env, jit_result, aot_result, report, loaded, parseVars, logVars>>

Args == [mode : {"jit", "aot", "all"}, compare : BOOLEAN, save : BOOLEAN]

Env(script, fixtures, base, target, seed) ==
  [script |-> script, fixtures |-> fixtures, base |-> base, target |-> target,
   seed |-> seed]

\* main has parsed its command line
MainStart ==
  /\ jit_result = None
  /\ aot_result = None
  /\ printed = <<>>
  /\ files = {}
  /\ exit_code = NotExited
  /\ mpc = "start"
  /\ report = None
  /\ ParseIdle
  /\ LogIdle
  /\ FileIdle

StandardCats == [c \in {"Standard"} |-> <<1000, 9000, 2000, 9000>>]

InitMain ==
  /\ args \in Args
  /\ env \in {Env(s, f, b, t, FALSE) :
                s \in BOOLEAN, f \in BOOLEAN,
                b \in {Unreadable,
                       Snapshot(None, ComparativeEntry("AOT", 1000, 1000, StandardCats))},
                t \in {Unreadable, Snapshot(None, None)}}
  /\ MainStart

NextMain ==
  \/ main_compare
  \/ main_checks
  \/ \E proc \in JitProcs : main_run_jit(proc)
  \/ \E proc \in AotProcs : main_run_aot(proc)
  \/ main_report

SpecMain == InitMain /\ [][NextMain]_vars

\* --------------------------------------------- main in comparison mode
\* the averages of the snapshot alphabet, in thousandths of a millisecond
QrValues == {0, NOISE_MS, 1000, 1030, 2000, 2050}

BarValues == {0, 1000}

\* qr_categories of the snapshot alphabet: (baseline avg, baseline p95, all
\* avg, all p95) by category name
CatMaps ==
  { EmptyDict,
    StandardCats,
    [c \in {"Standard", "Edge"} |->
       IF c = "Standard" THEN <<2000, 9000, 1000, 9000>> ELSE <<1000, 9000, 2050, 9000>>],
    [c \in {"Tiny", "Edge", "Complex"} |->
       IF c = "Tiny" THEN <<2000, 9000, 1030, 9000>> ELSE <<1000, 9000, 0, 9000>>],
    [c \in {"Blur", "Tiny"} |-> <<1000, 9000, 2000, 9000>>] }

AotEntries ==
  {None, LegacyEntry("AOT")} \cup
  {ComparativeEntry("AOT", q, b, c) : q \in QrValues, b \in BarValues, c \in CatMaps}

JitEntries ==
  {None,
   ComparativeEntry("JIT", 9000, 9000, [c \in {"Noise"} |-> <<9000, 9000, 9000, 9000>>])}

Snapshots == {Snapshot(j, a) : j \in JitEntries, a \in AotEntries}

InitCompare ==
  /\ args = [mode |-> "all", compare |-> TRUE, save |-> FALSE]
  /\ env \in {Env(TRUE, TRUE, b, t, seed) :
                b \in Snapshots, t \in Snapshots, seed \in BOOLEAN}
  /\ MainStart

NextCompare == main_compare

SpecCompare == InitCompare /\ [][NextCompare]_vars

\* --------------------------- comparison mode on snapshots without "aot"
\* snapshots whose "aot" entry is null, missing, or a Comparative entry
NullAotSnapshots ==
  {[jit |-> j] : j \in JitEntries} \cup
  {Snapshot(j, a) :
     j \in JitEntries,
     a \in {None} \cup {ComparativeEntry("AOT", q, 1000, c) :
                          q \in {0, 2000}, c \in CatMaps}}

InitNullAot ==
  /\ args = [mode |-> "all", compare |-> TRUE, save |-> FALSE]
  /\ env \in {Env(TRUE, TRUE, b, t, seed) :
                b \in NullAotSnapshots, t \in NullAotSnapshots, seed \in BOOLEAN}
  /\ MainStart

SpecNullAot == InitNullAot /\ [][NextCompare]_vars

\* ------------------------------------- a stdout, read line by line
\* section headers, a reading, and a reading with an overhead on its line
SectionLines ==
  { Line("QR Code Standard", FALSE, NoMatch, NoMatch, NoMatch, NoMatch),
    Line("QR Code Standard + Barcode", FALSE, NoMatch, NoMatch, NoMatch, NoMatch),
    Line("Barcode", FALSE, NoMatch, NoMatch, NoMatch, NoMatch),
    Line("Warmup", FALSE, NoMatch, NoMatch, NoMatch, NoMatch),
    Line("Barcode Metrics", FALSE, NoMatch, NoMatch, NoMatch, NoMatch),
    Line(NoHeader, TRUE, <<Tok_2_0, Tok_9_0>>, NoMatch, NoMatch, NoMatch),
    Line(NoHeader, TRUE, <<Tok_1_0, Tok_9_0>>, <<Tok_p0_6, Tok_15_0>>, NoMatch, NoMatch) }

\* the benchmark process prints a line before the parse begins
print_line(line) ==
  /\ pc = "start"
  /\ Len(text.lines) < MaxLines
  /\ write_line(line)

\* the loop of BenchmarkParser.parse takes the next line of output.splitlines()
next_line ==
  /\ text # None
  /\ output.nlines < Len(text.lines)
  /\ parse_line(text.lines[output.nlines + 1])

\* the loop is over: the last _commit_section and _build_result
end_of_lines ==
  /\ text # None
  /\ output.nlines = Len(text.lines)
  /\ parse_return

InitSections ==
  /\ text \in { Stdout(Text(TRUE, NoLegacyFacts), <<>>),
                Stdout(Text(TRUE, NoLegacyFacts), QRSection) }
  /\ calls = <<>>
  /\ output = Text(TRUE, NoLegacyFacts)
  /\ pc = "start"
  /\ parser = None
  /\ result = Pending
  /\ own = NoOwn
  /\ ended = None
  /\ MainIdle
  /\ FileIdle

NextSections ==
  \/ \E line \in SectionLines : print_line(line)
  \/ parse_benchmark_output
  \/ next_line
  \/ end_of_lines

SpecSections == InitSections /\ [][NextSections]_vars

\* ----------------------------------- one parser object, parse called twice
\* p = BenchmarkParser() before the first call, then p.parse(text)
parse_on_same_object ==
  /\ text # None
  /\ Len(calls) < 2
  /\ \E r \in {parse(IF parser = None THEN BenchmarkParser ELSE parser, text)} :
        /\ calls' = Append(calls, r.result)
        /\ parser' = r.self
  /\ UNCHANGED <<text, output, pc, result, own, ended, mainVars, fileVars>>

NextReuse ==
  \/ \E line \in TwiceLines : write_line(line)
  \/ parse_on_same_object

SpecReuse == InitTwice /\ [][NextReuse]_vars

\* ------------------------------------------- a saved snapshot, read back
\* load_results(path) of a later process on the file save_results wrote
load_results ==
  /\ disk # None
  /\ loaded = NotLoaded
  /\ loaded' = json_load(disk)
  /\ UNCHANGED <<disk, parseVars, logVars, mainVars>>

\* a Comparative stdout with two matches of a category and two DETAILS lines
DetailedText ==
  Stdout(Text(TRUE, NoLegacyFacts),
         QRSection \o
         << Line(NoHeader, FALSE, NoMatch, NoMatch, NoMatch, <<"Standard", Tok_1_0, Tok_9_0>>),
            Line(NoHeader, FALSE, NoMatch, NoMatch, NoMatch, <<"Standard", Tok_2_0, Tok_4_99>>),
            Line(NoHeader, FALSE, NoMatch, NoMatch,
                 <<"img1.png", Tok_1_0, Tok_2_0, "+1.000">>, NoMatch),
            Line(NoHeader, FALSE, NoMatch, NoMatch,
                 <<"img0.png", Tok_2_0, Tok_1_0, "-0.020">>, NoMatch) >>)

SnapshotProcs ==
  {Proc(0, 1, NoSummaryText)} \cup
  {Proc(0, 0, t) : t \in {LegacyPassText, LegacyWarnText, ComparativePassText,
                          ComparativeWarnText, DetailedText, NoSectionText,
                          MalformedText}}

InitSnapshot ==
  /\ args \in {a \in Args : ~a.compare /\ a.save}
  /\ env = Env(TRUE, TRUE, Unreadable, Unreadable, FALSE)
  /\ MainStart

NextSnapshot ==
  \/ main_checks
  \/ \E proc \in SnapshotProcs : main_run_jit(proc)
  \/ \E proc \in SnapshotProcs : main_run_aot(proc)
  \/ main_report
  \/ load_results

SpecSnapshot == InitSnapshot /\ [][NextSnapshot]_vars

\* ----------------------------------------------------------------- claims
Returned == pc = "done" /\ result.kind # "ValueError"

SlotNames == {"qr_standard_stats", "qr_stress_stats", "barcode_stats"}

\* the label selects one of the three known slots
KnownLabel(s) ==
  Contains("QR Code Standard", s) \/ Contains("QR Code Stress", s) \/ Contains("Barcode", s)

\* the section closed by the last step started with nothing pending from
\* earlier lines
StartedClean ==
  /\ Len(ended.avgs) = Len(ended.own_avgs)
  /\ (ended.overhead # NoMatch) = (ended.own_ohs # <<>>)

\* C1: for every input text parse_benchmark_output returns a Legacy result, a
\* Comparative result or None and never raises.
C1_NeverRaises ==
  pc = "done" => result.kind \in {"Legacy", "Comparative", "None"}

\* C2: a text with the marker never yields a Legacy result and a text without
\* it never yields a Comparative result, whatever Legacy lines it holds.
C2_VariantByMarker ==
  Returned =>
    /\ output.marker => result.kind \in {"Comparative", "None"}
    /\ ~output.marker => result.kind \in {"Legacy", "None"}

\* C2 witness: a log with the marker and all three Legacy summary lines gave a
\* Comparative result.
C2_Witness ==
  /\ pc = "done" /\ output.marker
  /\ output.total_match # NoMatch /\ output.time_match # NoMatch
  /\ output.avg_match # NoMatch
  /\ result.kind = "Comparative"

\* C3: a section fills a slot only if at least two reading lines and at least
\* one overhead line occurred after its own header, and nothing stored comes
\* from a line before that header.
C3_CommitFromOwnLines ==
  (ended.kind = "ended" /\ ended.stored # "none") =>
    /\ Len(ended.own_avgs) >= 2
    /\ Len(ended.own_ohs) >= 1
    /\ Len(ended.avgs) = Len(ended.own_avgs)

\* C4 as stated (on a section that started with nothing pending): a section
\* with a known label is committed iff it has at least 2 reading lines and
\* exactly one overhead line.
C4_ExactlyOneOverhead ==
  (ended.kind = "ended" /\ KnownLabel(ended.section) /\ StartedClean) =>
    ((ended.stored # "none") <=>
       (Len(ended.own_avgs) >= 2 /\ Len(ended.own_ohs) = 1))

\* C4 amended: a section with a known label is committed iff, when it closes,
\* at least 2 readings and an overhead are pending; for a section that started
\* with nothing pending that is at least 2 reading lines and at least one
\* overhead line, and a committed slot holds the first two pending readings
\* and the pending overhead.
C4_CommitIffPending ==
  (ended.kind = "ended" /\ KnownLabel(ended.section)) =>
    /\ (ended.stored # "none") <=>
          (Len(ended.avgs) >= 2 /\ ended.overhead # NoMatch)
    /\ StartedClean =>
          ((ended.stored # "none") <=>
             (Len(ended.own_avgs) >= 2 /\ Len(ended.own_ohs) >= 1))
    /\ ended.stored # "none" =>
          parser[ended.stored] = [baseline |-> ended.avgs[1], all |-> ended.avgs[2],
                                  overhead |-> ended.overhead]

\* C4 witness: a known section with two reading lines and two overhead lines
\* of its own was committed.
C4_Witness ==
  /\ ended.kind = "ended" /\ KnownLabel(ended.section) /\ StartedClean
  /\ Len(ended.own_avgs) = 2 /\ Len(ended.own_ohs) = 2
  /\ ended.stored # "none"

\* C5: once all lines are consumed the parse returns None iff no slot was
\* committed, and a Comparative result if at least one was.
C5_NoneIffNoSlot ==
  (pc = "done" /\ output.marker /\ result # ValueError("_process_line")) =>
    LET committed == \E n \in SlotNames : parser[n] # None
    IN /\ (result = None) <=> ~committed
       /\ committed => result.kind = "Comparative"

\* C6: in every committed section baseline is the first reading that appeared
\* in the section and all is the second.
C6_FirstTwoOfSection ==
  (ended.kind = "ended" /\ ended.stored # "none") =>
    /\ Len(ended.own_avgs) >= 2
    /\ parser[ended.stored].baseline = ended.own_avgs[1]
    /\ parser[ended.stored].all = ended.own_avgs[2]

\* C7: a Comparative result has passed = TRUE iff its QR-standard overhead
\* percentage is strictly below 15.0, whatever the other two slots hold.
C7_PassedIffQrBelow15 ==
  result.kind = "Comparative" =>
    /\ result.passed <=> result.qr_overhead_pct < 15000
    /\ result.qr_overhead_pct = 15000 => ~result.passed
    /\ result.qr_overhead_pct = 14990 => result.passed

\* C7 witness: QR standard committed at exactly 15.0 % and QR stress at
\* 14.99 %: passed is FALSE.
C7_Witness ==
  /\ result.kind = "Comparative"
  /\ parser.qr_standard_stats # None /\ parser.qr_stress_stats # None
  /\ result.qr_overhead_pct = 15000 /\ result.qr_stress_overhead_pct = 14990
  /\ ~result.passed

\* C8: without the marker a result is returned iff all three Legacy patterns
\* match; if any is missing the result is None.
C8_LegacyIffAllThree ==
  (pc = "done" /\ ~output.marker) =>
    LET all3 == /\ output.total_match # NoMatch
                /\ output.time_match # NoMatch
                /\ output.avg_match # NoMatch
    IN /\ (result.kind = "Legacy") <=> all3
       /\ ~all3 => result = None

\* C9: a Legacy result has passed = TRUE iff the BENCHMARK_PASS marker is in
\* the text or the average is strictly below 5.0 ms.
C9_LegacyPassed ==
  result.kind = "Legacy" =>
    /\ result.passed <=> (output.pass_explicit \/ result.avg_time_ms < 5000)
    /\ (output.avg_match = <<Tok_5_0>> /\ ~output.pass_explicit) => ~result.passed
    /\ output.avg_match = <<Tok_4_99>> => result.passed
    /\ output.pass_explicit => result.passed

\* C9 witness: no pass marker and an average of exactly 5.0 ms: passed is FALSE.
C9_Witness ==
  /\ result.kind = "Legacy" /\ ~output.pass_explicit
  /\ result.avg_time_ms = 5000 /\ ~result.passed

\* the four flat fields of a slot, in the order baseline, all, overhead-ms,
\* overhead-pct
FlatFields(r, n) ==
  CASE n = "qr_standard_stats" ->
         <<r.qr_baseline_ms, r.qr_all_ms, r.qr_overhead_ms, r.qr_overhead_pct>>
    [] n = "qr_stress_stats" ->
         <<r.qr_stress_baseline_ms, r.qr_stress_all_ms, r.qr_stress_overhead_ms,
           r.qr_stress_overhead_pct>>
    [] n = "barcode_stats" ->
         <<r.barcode_baseline_ms, r.barcode_all_ms, r.barcode_overhead_ms,
           r.barcode_overhead_pct>>

\* C10: in a Comparative result the twelve flat fields are numbers; those of a
\* slot never committed are 0.0 and those of a committed slot are its values.
C10_FlatFields ==
  result.kind = "Comparative" =>
    \A n \in SlotNames :
      /\ \A i \in 1..4 : FlatFields(result, n)[i] \in Int
      /\ parser[n] = None => FlatFields(result, n) = <<0, 0, 0, 0>>
      /\ parser[n] # None =>
           FlatFields(result, n) =
             <<parser[n].baseline[1], parser[n].all[1],
               parser[n].overhead[1], parser[n].overhead[2]>>

\* C10 witness: QR standard committed with distinct values, barcode never
\* committed.
C10_Witness ==
  /\ result.kind = "Comparative"
  /\ parser.qr_standard_stats # None /\ parser.barcode_stats = None
  /\ result.qr_baseline_ms = 1000 /\ result.qr_all_ms = 2000
  /\ result.qr_overhead_ms = 500 /\ result.qr_overhead_pct = 14990
  /\ result.barcode_all_ms = 0

\* the DETAILS matches of the text, in input order
DetailsOf(t) ==
  LET IsDetail(l) == l.det # NoMatch
      ls == SelectSeq(t.lines, IsDetail)
  IN [i \in 1..Len(ls) |-> ls[i].det]

\* C11: two successive calls of parse_benchmark_output on the same text give
\* field-equal outcomes (same variant or both None, same slot values, same
\* category maps, same detail rows in the same order): nothing of the first
\* call reaches the second.
C11_SecondCallEqual ==
  Len(calls) = 2 => calls[1] = calls[2]

\* C11 witness: a Comparative log with a committed slot, a category pair and a
\* DETAILS row was parsed twice.
C11_Witness ==
  /\ Len(calls) = 2
  /\ calls[2].kind = "Comparative"
  /\ calls[2].qr_baseline_ms = 1000
  /\ Len(calls[2].details) >= 1
  /\ DOMAIN calls[2].qr_categories = {"Standard"}

\* the matches of a category's pattern in the text, in input order
CatMatchesOf(t, cat) ==
  LET IsCat(l) == l.cat # NoMatch /\ l.cat[1] = cat
      ls == SelectSeq(t.lines, IsCat)
  IN [i \in 1..Len(ls) |-> <<ls[i].cat[2], ls[i].cat[3]>>]

\* (avg, p95, avg, p95) of the matches i and j
FourOf(m, i, j) ==
  <<float(m[i][1]).v, float(m[i][2]).v, float(m[j][1]).v, float(m[j][2]).v>>

\* C12: category attribution is positional: with n matches of a category's
\* line in the whole text, the QR mapping has the category iff n >= 2, built
\* from matches 1 and 2; the barcode mapping has it iff n >= 4, built from
\* matches 3 and 4; later matches and the sections around the lines play no
\* part.
C12_PositionalCategories ==
  \A c \in 1..Len(calls) :
    calls[c].kind = "Comparative" =>
      \A cat \in CatNames :
        /\ (cat \in DOMAIN calls[c].qr_categories) <=> Len(CatMatchesOf(text, cat)) >= 2
        /\ (cat \in DOMAIN calls[c].barcode_categories) <=> Len(CatMatchesOf(text, cat)) >= 4
        /\ Len(CatMatchesOf(text, cat)) >= 2 =>
             calls[c].qr_categories[cat] = FourOf(CatMatchesOf(text, cat), 1, 2)
        /\ Len(CatMatchesOf(text, cat)) >= 4 =>
             calls[c].barcode_categories[cat] = FourOf(CatMatchesOf(text, cat), 3, 4)

\* C12 witness: five Standard lines, the fifth unlike the fourth and the third
\* unlike the first, gave a Comparative result with both mappings.
C12_Witness ==
  /\ Len(calls) >= 1
  /\ calls[1].kind = "Comparative"
  /\ Len(CatMatchesOf(text, "Standard")) = 5
  /\ CatMatchesOf(text, "Standard")[5] # CatMatchesOf(text, "Standard")[4]
  /\ CatMatchesOf(text, "Standard")[3] # CatMatchesOf(text, "Standard")[1]
  /\ "Standard" \in DOMAIN calls[1].barcode_categories

\* C13: in a Comparative result the details sequence has exactly one row per
\* DETAILS line of the text, in input order, each with the two times parsed as
\* numbers and the diff field as the literal string of the line.
C13_DetailRows ==
  \A c \in 1..Len(calls) :
    calls[c].kind = "Comparative" =>
      calls[c].details =
        [i \in 1..Len(DetailsOf(text)) |->
           <<DetailsOf(text)[i][1], float(DetailsOf(text)[i][2]).v,
             float(DetailsOf(text)[i][3]).v, DetailsOf(text)[i][4]>>]

\* C13 witness: img3 (2.0 -> 1.0, diff "-0.020") then img1 (1.0 -> 2.0, diff
\* "+1.000"), with a header between them, gave these two rows in this order.
C13_Witness ==
  /\ Len(calls) >= 1
  /\ calls[1].kind = "Comparative"
  /\ calls[1].details = << <<"img3.png", 2000, 1000, "-0.020">>,
                           <<"img1.png", 1000, 2000, "+1.000">> >>
  /\ Len(text.lines) = Len(QRSection) + 3

\* the number of times a message was printed
Count(msg) == Cardinality({i \in 1..Len(printed) : printed[i] = msg})

\* both runs gave a result and the two are of different variants
MixedVariants ==
  /\ jit_result # None /\ aot_result # None
  /\ jit_result.kind # aot_result.kind

\* C14: the same-run comparison of a Legacy and a Comparative result, in
\* either order, does not crash, prints one error message and no comparison
\* table and writes no Markdown report; the Markdown report is written only
\* when both results are Comparative.
C14_MixedVariantsReported ==
  /\ (mpc = "report" /\ MixedVariants) =>
        /\ print_comparison(jit_result, aot_result).printed =
             <<"comparison_banner", "error_mixed">>
        /\ print_comparison(jit_result, aot_result).files = {}
  /\ (mpc = "exited" /\ MixedVariants) =>
        /\ Count("error_mixed") = 1
        /\ Count("legacy_table") = 0 /\ Count("comparative_table") = 0
        /\ Count("traceback") = 0
        /\ "benchmark_summary.md" \notin files
        /\ exit_code = 0
  /\ "benchmark_summary.md" \in files =>
        /\ jit_result # None /\ aot_result # None
        /\ jit_result.kind = "Comparative" /\ aot_result.kind = "Comparative"

\* C14 witness: main has ended after comparing a Comparative JIT result with a
\* Legacy AOT result.
C14_Witness ==
  /\ mpc = "exited"
  /\ jit_result # None /\ aot_result # None
  /\ jit_result.kind = "Comparative" /\ aot_result.kind = "Legacy"
  /\ Count("error_mixed") = 1

\* C19: whenever at least one requested run yields a result and reporting
\* completes, the exit code is 0, whatever the passed flags are.
C19_ExitZeroWithResult ==
  (mpc = "exited" /\ ~args.compare /\ (jit_result # None \/ aot_result # None)) =>
    /\ Count("total_time") = 1
    /\ exit_code = 0

\* C19 witness: mode all, the JIT result has passed = FALSE and the AOT run
\* gave nothing; main reported the JIT result alone and exited with 0.
C19_Witness ==
  /\ mpc = "exited" /\ args.mode = "all"
  /\ jit_result # None /\ ~jit_result.passed
  /\ aot_result = None
  /\ Count("benchmarks_failed_or_warned") = 1
  /\ exit_code = 0

\* an input of main is missing
MissingInput ==
  IF args.compare THEN env.base = Unreadable \/ env.target = Unreadable
  ELSE ~env.script \/ ~env.fixtures

\* every requested run yields no result
TotalFailure ==
  /\ ~args.compare
  /\ args.mode \in {"jit", "all"} => jit_result = None
  /\ args.mode \in {"aot", "all"} => aot_result = None

\* C20: the process exits with code 1 exactly when an input is missing or
\* every requested run yields no result, mode all with both runs failing
\* included (stated on the exits main makes itself; an exception that leaves
\* main is the matter of C1).
C20_ExitOneIffNoInputOrNoResult ==
  mpc = "exited" => ((exit_code = 1) <=> (MissingInput \/ TotalFailure))

\* the percentage of a row is delta / base * 100 to three decimals (rounded
\* down), and 0 when base is 0
PctOf(pct, diff, base) ==
  /\ pct.ok
  /\ base = 0 => pct.v = 0
  /\ base > 0 => (pct.v * base <= diff * 100000 /\ diff * 100000 < (pct.v + 1) * base)

\* C15: in the cross-run report every tracked metric (QR average, barcode
\* average, each category row) has delta = target - base and percentage =
\* delta / base * 100, 0 when base is 0; the report is produced for every pair
\* of non-negative values, no division by zero occurs.
C15_DeltaAndPercentage ==
  mpc = "exited" =>
    /\ report # None /\ exit_code = 0
    /\ report.main[1].base = get_metric(env.base.aot, "qr_all_ms")
    /\ report.main[1].target = get_metric(env.target.aot, "qr_all_ms")
    /\ report.main[2].base = get_metric(env.base.aot, "barcode_all_ms")
    /\ report.main[2].target = get_metric(env.target.aot, "barcode_all_ms")
    /\ \A i \in 1..2 :
         /\ report.main[i].diff = report.main[i].target - report.main[i].base
         /\ PctOf(report.main[i].pct, report.main[i].diff, report.main[i].base)
    /\ \A i \in 1..Len(report.cats) :
         /\ report.cats[i].diff = report.cats[i].t_val - report.cats[i].b_val
         /\ PctOf(report.cats[i].pct, report.cats[i].diff, report.cats[i].b_val)

\* C15 witness: QR average from 0 to 1.0 ms (percentage 0), barcode average
\* from 1.0 ms to 0 (-100 %), and a category row with base 0.
C15_Witness ==
  /\ mpc = "exited" /\ report # None
  /\ report.main[1].base = 0 /\ report.main[1].target = 1000
  /\ report.main[1].pct.v = 0
  /\ report.main[2].base = 1000 /\ report.main[2].diff = 0 - 1000
  /\ report.main[2].pct.v = 0 - 100000
  /\ \E i \in 1..Len(report.cats) : report.cats[i].b_val = 0 /\ report.cats[i].t_val > 0

\* C16: each main-metric row carries exactly one verdict: neutral if |delta|
\* is below 0.05 ms, otherwise improved if delta <= 0 and regressed if
\* delta > 0, delta being target - base; 1.000 -> 1.030 is neutral and a
\* |delta| of exactly 0.05 is not.
C16_Verdict ==
  (mpc = "exited" /\ report # None) =>
    \A i \in 1..2 :
      /\ report.main[i].icon \in {"neutral", "improved", "regressed"}
      /\ Abs(report.main[i].target - report.main[i].base) < 50 =>
           report.main[i].icon = "neutral"
      /\ Abs(report.main[i].target - report.main[i].base) >= 50 =>
           report.main[i].icon =
             IF report.main[i].target - report.main[i].base <= 0
             THEN "improved" ELSE "regressed"

\* the position of a known category in the canonical order
CanonicalIndex(cat) == CHOOSE i \in 1..Len(CatOrder) : CatOrder[i] = cat

\* C17: the report has exactly one category row for each key of the union of
\* the two QR category mappings; known categories come in the canonical
\* order, every unknown one after all known ones, and a category absent from
\* one side has value 0 on that side.
C17_CategoryRows ==
  (mpc = "exited" /\ report # None) =>
    LET bc == CatsOf(env.base.aot)
        tc == CatsOf(env.target.aot)
        rows == report.cats
    IN /\ {rows[i].cat : i \in 1..Len(rows)} = DOMAIN bc \cup DOMAIN tc
       /\ Len(rows) = Cardinality(DOMAIN bc \cup DOMAIN tc)
       /\ report.cat_table <=> (DOMAIN bc \cup DOMAIN tc # {})
       /\ \A i, j \in 1..Len(rows) :
            i < j =>
              /\ rows[i].cat \notin CatNames => rows[j].cat \notin CatNames
              /\ (rows[i].cat \in CatNames /\ rows[j].cat \in CatNames) =>
                   CanonicalIndex(rows[i].cat) < CanonicalIndex(rows[j].cat)
       /\ \A i \in 1..Len(rows) :
            /\ rows[i].b_val = IF rows[i].cat \in DOMAIN bc THEN bc[rows[i].cat][3] ELSE 0
            /\ rows[i].t_val = IF rows[i].cat \in DOMAIN tc THEN tc[rows[i].cat][3] ELSE 0

\* C17 witness: two known and two unknown categories, Standard only in the
\* base snapshot and Blur only in the target snapshot.
C17_Witness ==
  /\ mpc = "exited" /\ report # None
  /\ Len(report.cats) = 4
  /\ report.cats[1].cat = "Standard" /\ report.cats[1].t_val = 0
  /\ report.cats[1].b_val = 1000
  /\ report.cats[2].cat = "Edge"
  /\ \E i \in 3..4 : report.cats[i].cat = "Blur" /\ report.cats[i].b_val = 0

\* C18: the report depends only on the "aot" entries: whatever "jit" entries
\* stand beside the same "aot" entries, also a null one, the report is the
\* one produced.
C18_OnlyAotCompared ==
  (mpc = "exited" /\ report # None) =>
    \A j1 \in JitEntries, j2 \in JitEntries :
      generate_comparison_report(Snapshot(j1, env.base.aot),
                                 Snapshot(j2, env.target.aot), env.seed) = report

\* C18 witness: the base snapshot has a "jit" entry and a null "aot" entry;
\* the report carries the warning and base values 0.
C18_Witness ==
  /\ mpc = "exited" /\ report # None
  /\ env.base.aot = None /\ env.base.jit # None
  /\ env.target.aot # None /\ env.target.jit = None
  /\ report.warning
  /\ report.main[1].base = 0 /\ report.main[1].target = 2050

\* main runs both benchmarks: mode all, past the checks of lines 719-735
BothModes ==
  /\ ~args.compare
  /\ args.mode = "all"
  /\ env.script
  /\ env.fixtures

\* C21: in mode all the two runs are sequential and independent in outcome:
\* the AOT run starts only after the JIT run was captured and parsed, a failed
\* or unparseable JIT run does not keep the AOT run from starting, exactly one
\* result is reported standalone with no two-mode comparison, and each
\* external command is started at most once.
C21_SequentialIndependentRuns ==
  BothModes =>
    /\ Count("running_jit") <= 1
    /\ Count("compiling") <= 1
    /\ Count("running_aot") <= 1
    /\ \A i, j \in 1..Len(printed) :
         (printed[i] = "compiling" /\ printed[j] = "running_jit") => j < i
    /\ Count("compiling") = 1 => mpc \in {"report", "exited", "crashed"}
    /\ mpc \in {"exited", "crashed"} =>
         (Count("running_jit") = 1 /\ Count("compiling") = 1)
    /\ (mpc = "exited" /\ jit_result # None /\ aot_result = None) =>
         (Count("single_result_jit") = 1 /\ Count("comparison_banner") = 0)
    /\ (mpc = "exited" /\ jit_result = None /\ aot_result # None) =>
         (Count("single_result_aot") = 1 /\ Count("comparison_banner") = 0)

\* what load_results gave for one side is the result that was saved: None for
\* an absent result, otherwise a mapping of the same field names with equal
\* flat fields, category mappings and detail rows
SideRoundTrip(side, res) ==
  IF res = None THEN side = None
  ELSE /\ side # None
       /\ DOMAIN side = DOMAIN res \ {"kind"}
       /\ \A f \in DOMAIN side \ (CatFields \cup {"details"}) : side[f] = res[f]
       /\ \A f \in DOMAIN side \cap CatFields :
            /\ DOMAIN side[f] = DOMAIN res[f]
            /\ \A c \in DOMAIN side[f] :
                 Len(side[f][c]) = 4 /\ \A i \in 1..4 : side[f][c][i] = res[f][c][i]
       /\ "details" \in DOMAIN side =>
            /\ Len(side.details) = Len(res.details)
            /\ \A i \in 1..Len(side.details) :
                 /\ Len(side.details[i]) = 4
                 /\ \A n \in 1..4 : side.details[i][n] = res.details[i][n]

\* C22: loading the file save_results wrote gives an object with exactly the
\* keys jit and aot, each null when that result is absent and otherwise a
\* mapping whose flat fields equal the result's, whose category mappings keep
\* their keys and 4-element values and whose details keep their rows in order.
C22_SnapshotRoundTrip ==
  loaded # NotLoaded =>
    /\ DOMAIN loaded = {"jit", "aot"}
    /\ SideRoundTrip(loaded.jit, jit_result)
    /\ SideRoundTrip(loaded.aot, aot_result)

\* C22 witness: a Comparative JIT result with an overhead of 14.99 %, a
\* category and two detail rows was saved beside an absent AOT result and
\* read back.
C22_Witness ==
  /\ loaded # NotLoaded
  /\ jit_result.kind = "Comparative"
  /\ jit_result.qr_overhead_pct = 14990
  /\ DOMAIN jit_result.qr_categories = {"Standard"}
  /\ Len(jit_result.details) = 2
  /\ loaded.jit.details[2][4] = "-0.020"
  /\ aot_result = None
  /\ loaded.aot = None

\* C23: immediately after the parser processes a non-decorative section
\* header, current_section is the new label and nothing is pending (no
\* reading, no overhead), whatever came before the header.
C23_HeaderClearsPending ==
  [][\A line \in Lines :
       (IsSectionHeader(line) /\ parse_line(line)) =>
         /\ parser'.current_section = line.header
         /\ parser'.section_avgs = <<>>
         /\ parser'.section_overhead = NoMatch]_vars

\* C24: an overhead line (no header, the overhead pattern matched, float()
\* accepted its groups) sets the pending overhead to its (ms, pct) pair
\* whatever was pending, and leaves the pending readings as they are but for
\* the reading the same line may carry; a section with overhead lines of its
\* own that commits stores the overhead of the last of them.
C24_OverheadOverwrites ==
  [][/\ \A line \in Lines :
          (IsOverhead(line) /\ parse_line(line) /\ pc' = "lines") =>
            /\ parser'.section_overhead =
                 <<float(line.oh[1]).v, float(line.oh[2]).v>>
            /\ parser'.section_avgs =
                 IF IsReading(line)
                 THEN Append(parser.section_avgs,
                             <<float(line.stats[1]).v, float(line.stats[2]).v>>)
                 ELSE parser.section_avgs
     /\ (ended'.kind = "ended" /\ ended'.stored # "none" /\ Len(ended'.own_ohs) >= 1) =>
          parser'[ended'.stored].overhead = ended'.own_ohs[Len(ended'.own_ohs)]]_vars

\* C24 witness: a section with two different overhead lines was committed with
\* the overhead of the second.
C24_Witness ==
  /\ ended.kind = "ended" /\ ended.stored # "none"
  /\ Len(ended.own_ohs) = 2
  /\ ended.own_ohs[1] # ended.own_ohs[2]
  /\ parser[ended.stored].overhead = ended.own_ohs[2]

\* the lines read so far (after the step, with a prime)
Consumed == SubSeq(text.lines, 1, output.nlines)

\* lines without the decorative headers
Undecorated(lines) ==
  LET Kept(line) == ~IsDecorativeHeader(line) IN SelectSeq(lines, Kept)

\* C25: a section header whose label contains Metrics changes nothing of the
\* parser (current_section, pending readings, pending overhead, the three
\* slots) and closes no section; what is read after it accumulates as if the
\* header were not there.
C25_DecorativeHeaderIgnored ==
  [][(pc = "lines" /\ pc' = "lines" /\ output'.nlines = output.nlines + 1) =>
       /\ IsDecorativeHeader(text.lines[output'.nlines]) =>
            (parser' = parser /\ ended' = None)
       /\ parser' = ProcessLines(BenchmarkParser, Undecorated(Consumed'), 1).self]_vars

\* C25 witness: a QR-standard section with a Metrics header between its two
\* readings was committed with both readings.
C25_Witness ==
  /\ pc = "done" /\ result.kind = "Comparative"
  /\ Len(text.lines) = 4
  /\ text.lines[1].header = "QR Code Standard"
  /\ IsReading(text.lines[2])
  /\ IsDecorativeHeader(text.lines[3])
  /\ IsReading(text.lines[4])
  /\ result.qr_baseline_ms = 2000 /\ result.qr_all_ms = 1000

\* the step closes a section: a section header was read, or the loop is over
ClosingStep ==
  /\ pc = "lines"
  /\ parser' # None
  /\ \/ /\ pc' = "lines" /\ output'.nlines = output.nlines + 1
        /\ IsSectionHeader(text.lines[output'.nlines])
     \/ /\ pc' = "done" /\ output'.nlines = output.nlines

\* the section being closed meets the commit condition
Committing ==
  /\ parser.current_section # NoSection
  /\ Len(parser.section_avgs) >= 2
  /\ parser.section_overhead # NoMatch

\* the slot of a label: the first of the three names it contains
SlotOf(label) ==
  IF Contains("QR Code Standard", label) THEN "qr_standard_stats"
  ELSE IF Contains("QR Code Stress", label) THEN "qr_stress_stats"
  ELSE IF Contains("Barcode", label) THEN "barcode_stats"
  ELSE "none"

\* C26: a committing section fills at most one slot, the first of QR Code
\* Standard, QR Code Stress, Barcode that its label contains; a committing
\* section whose label contains none fills no slot and raises nothing; either
\* way its pending readings and overhead are cleared.
C26_FirstMatchingSlot ==
  [][(ClosingStep /\ Committing) =>
       /\ \A n \in SlotNames :
            parser'[n] = IF n = SlotOf(parser.current_section)
                         THEN [baseline |-> parser.section_avgs[1],
                               all |-> parser.section_avgs[2],
                               overhead |-> parser.section_overhead]
                         ELSE parser[n]
       /\ parser'.section_avgs = <<>>
       /\ parser'.section_overhead = NoMatch
       /\ result'.kind # "ValueError"]_vars

\* C26 witness: a section labelled "QR Code Standard + Barcode" was committed
\* to the QR-standard slot and the barcode slot stayed empty.
C26_Witness ==
  /\ pc = "done" /\ result.kind = "Comparative"
  /\ Len(text.lines) = 3
  /\ text.lines[1].header = "QR Code Standard + Barcode"
  /\ parser.qr_standard_stats # None
  /\ parser.barcode_stats = None
  /\ parser.section_avgs = <<>>

\* C27: what one call of parse leaves in the parser object does not affect a
\* later call: the second parse on the same object returns what a fresh parser
\* returns for that text.
C27_SecondParseAsFresh ==
  Len(calls) = 2 => calls[2] = parse(BenchmarkParser, text).result

\* C28: a Comparative result whose QR-standard slot was never committed has
\* passed = TRUE whatever the overhead percentages of the committed slots,
\* its QR overhead percentage being taken as 0.0.
C28_PassedWithoutQrStandard ==
  (result.kind = "Comparative" /\ parser.qr_standard_stats = None) =>
    (result.passed /\ result.qr_overhead_pct = 0)

\* C28 witness: only the barcode slot was committed, at 15.0 %: passed is TRUE.
C28_Witness ==
  /\ result.kind = "Comparative"
  /\ parser.qr_standard_stats = None /\ parser.qr_stress_stats = None
  /\ parser.barcode_stats # None
  /\ result.barcode_overhead_pct = 15000
  /\ result.passed

\* C29: a slot changes only when a section that maps to it closes with the
\* commit condition met, and then it holds that section's values entirely; a
\* section that closes without meeting the condition leaves every slot as it
\* was; a committed slot is never cleared during a parse.
C29_LastCommittingSectionWins ==
  [][(pc = "lines" /\ parser' # None) =>
       \A n \in SlotNames :
         /\ parser[n] # None => parser'[n] # None
         /\ parser'[n] # parser[n] =>
              (ClosingStep /\ Committing /\ SlotOf(parser.current_section) = n)
         /\ (ClosingStep /\ Committing /\ SlotOf(parser.current_section) = n) =>
              parser'[n] = [baseline |-> parser.section_avgs[1],
                            all |-> parser.section_avgs[2],
                            overhead |-> parser.section_overhead]
         /\ (ClosingStep /\ ~Committing) => parser'[n] = parser[n]]_vars

\* C29 witness: two QR-standard sections were committed one after the other
\* and the slot holds the values of the second.
C29_Witness ==
  /\ pc = "done" /\ result.kind = "Comparative"
  /\ Len(text.lines) = 6
  /\ SubSeq(text.lines, 1, 3) = QRSection
  /\ text.lines[4].header = "QR Code Standard"
  /\ IsReading(text.lines[5]) /\ IsReading(text.lines[6])
  /\ parser.qr_standard_stats =
       [baseline |-> <<2000, 9000>>, all |-> <<1000, 9000>>, overhead |-> <<600, 15000>>]

\* C30: when the "aot" entry of the base snapshot, of the target snapshot or
\* of both is null or missing, generate_comparison_report returns a report
\* without raising: the warning line is there, both main rows are there, every
\* metric of the null side is 0, and the category rows are those of the
\* categories of the other side.
C30_NullAotReported ==
  (mpc = "exited" /\ (AotOf(env.base) = None \/ AotOf(env.target) = None)) =>
    /\ exit_code = 0
    /\ Count("comparison_failed") = 0
    /\ report # None
    /\ report.warning
    /\ Len(report.main) = 2
    /\ AotOf(env.base) = None =>
         /\ \A i \in 1..2 : report.main[i].base = 0
         /\ \A i \in 1..Len(report.cats) : report.cats[i].b_val = 0
         /\ {report.cats[i].cat : i \in 1..Len(report.cats)} =
              IF AotOf(env.target) = None THEN {}
              ELSE DOMAIN env.target.aot.qr_categories
    /\ AotOf(env.target) = None =>
         /\ \A i \in 1..2 : report.main[i].target = 0
         /\ \A i \in 1..Len(report.cats) : report.cats[i].t_val = 0
         /\ {report.cats[i].cat : i \in 1..Len(report.cats)} =
              IF AotOf(env.base) = None THEN {}
              ELSE DOMAIN env.base.aot.qr_categories

\* C30 witness: the base snapshot has no "aot" key and the target has
\* categories: the report warns and shows the target's categories against 0.
C30_Witness ==
  /\ mpc = "exited" /\ report # None
  /\ "aot" \notin DOMAIN env.base
  /\ AotOf(env.target) # None
  /\ report.warning
  /\ report.main[1].base = 0 /\ report.main[1].target = 2000
  /\ Len(report.cats) = 2
  /\ report.cats[1].b_val = 0 /\ report.cats[1].t_val > 0

====
